---- MODULE Spec2Model ----
(***************************************************************************)
(* Kindle Manga Optimizer (src/main.py): chapter list, volume planning,   *)
(* the export worker thread with cooperative cancellation, the per-volume *)
(* page sequence numbering and the hand-over to the external packager.     *)
(*                                                                         *)
(* Paths are modelled by what identifies them: a chapter directory by its *)
(* rank in chapter-key order, an image by <<chapter, rank in image-key    *)
(* order>>, a volume directory of temp/ by its name vol_NN, a page file in *)
(* it by its sequence number, an ebook file by <<kind, the volume's NN,    *)
(* timestamp>>.                                                            *)
(***************************************************************************)
EXTENDS Integers, Sequences, FiniteSets, TLC

VARIABLES
    selected_folder,      \* self.selected_folder: None or the chosen root (its contents)
    process_subfolders,   \* self.process_subfolders
    profile_key,          \* self.profile_key
    chapters,             \* self.chapters: list of Chapter
    group_size,           \* self.group_size
    start_volume,         \* self.start_volume
    plan_tree,            \* rows of self.plan_tree as filled by update_plan_view
    config,               \* the Tk variables read by the enhancement pipeline
    clean_temp_before,    \* self.clean_temp_before
    clean_ebooks_before,  \* self.clean_ebooks_before
    btn_convert,          \* state of the start button
    btn_cancel,           \* state of the cancel button
    cancel_event,         \* self.cancel_event
    worker_thread,        \* self.worker_thread: 0 (None) or the id of the last thread started
    alive,                \* ids of the threads that are alive
    pc,                   \* position of the worker in _process_plan_worker
    plan,                 \* worker local: plan
    start_v,              \* worker local: start_v
    idx,                  \* worker local: index of the current volume (1-based)
    ci,                   \* worker local: index of the current chapter in the volume
    ii,                   \* worker local: index of the current image in the chapter
    seq,                  \* worker local: seq
    created,              \* worker local: created
    temp,                 \* temp/: directory name vol_NN -> (sequence number -> page file)
    ebooks,               \* ebooks/: file name -> [mtime, vol]
    now,                  \* wall clock (mtime and timestamp source)
    has_ximgproc,         \* self.has_ximgproc
    cv2_raises,           \* the cv2 calls that throw in this installation
    preview_mode,         \* self.preview_mode
    preview,              \* self._preview_pil: None or the processed images of the composite
    renders,              \* history: invocations of enhance_image_preset by the preview
    log,                  \* messages put on ui_queue (as a set)
    calls,                \* history: invocations of process_single_image_seq in the current run
    kcc_runs,             \* history: volume numbers handed to the packager in the current run
    run_cfg,              \* history: configuration in effect when the current run was started
    fs_at_start,          \* history: <<temp, ebooks>> when the current run was started
    run_chapters,         \* history: self.chapters when the current run was started
    ops                   \* user operations (folders chosen, settings edited, runs started) so far

vars == <<selected_folder, process_subfolders, chapters, group_size, start_volume,
          plan_tree, config, clean_temp_before, clean_ebooks_before, btn_convert,
          btn_cancel, cancel_event, worker_thread, alive, pc, plan, start_v, idx,
          ci, ii, seq, created, temp, ebooks, now, has_ximgproc, log, calls, kcc_runs,
          run_cfg, fs_at_start, run_chapters, ops, profile_key, cv2_raises,
          preview_mode, preview, renders>>

previewVars == <<preview_mode, preview, renders>>

uiVars == <<selected_folder, process_subfolders, chapters, group_size, start_volume,
            plan_tree, config, clean_temp_before, clean_ebooks_before, profile_key,
            previewVars>>

workerVars == <<pc, plan, start_v, idx, ci, ii, seq, created>>

fsVars == <<temp, ebooks, now>>

histVars == <<calls, kcc_runs, run_cfg, fs_at_start, run_chapters>>

envVars == <<has_ximgproc, cv2_raises>>

threadVars == <<btn_convert, btn_cancel, cancel_event, worker_thread, alive>>

----------------------------------------------------------------------------
(* Bounds *)

MaxChapters == 2        \* chapter subdirectories of a root folder
MaxImages == 2          \* image files in one chapter subdirectory
MaxRootImages == 1      \* image files directly in a root folder
MaxPages == 3           \* image files in the subdirectories of a root folder
MaxOps == 3             \* user operations in one behaviour
MaxPlanChapters == 3    \* chapters of a list handed to the planner
MaxGroup == 3           \* largest group size handed to the planner
MaxStart == 2           \* largest start volume handed to the planner

----------------------------------------------------------------------------
(* Helpers *)

\* Python's None, where a record is expected
None == [none |-> TRUE]

Max(a, b) == IF a >= b THEN a ELSE b

RECURSIVE Flatten(_)
Flatten(ss) == IF ss = <<>> THEN <<>> ELSE Head(ss) \o Flatten(Tail(ss))

RECURSIVE SumSeq(_)
SumSeq(s) == IF s = <<>> THEN 0 ELSE Head(s) + SumSeq(Tail(s))

Range(s) == {s[i] : i \in DOMAIN s}

\* Chapter (dataclass): name, images, enabled; dir is identified with name
Chapter(name, images) == [name |-> name, images |-> images, enabled |-> TRUE]

\* Chapter.pages
pages(ch) == Len(ch.images)

----------------------------------------------------------------------------
(* Planning *)

\* the slice one entry too long: enabled[i:i+g+1]
SliceLong(s, i, g) == SubSeq(s, i + 1, IF i + g + 1 <= Len(s) THEN i + g + 1 ELSE Len(s))

\* the slice enabled[i:i+g] of a 0-based start i (Python clamps the end)
Slice(s, i, g) == SubSeq(s, i + 1, IF i + g <= Len(s) THEN i + g ELSE Len(s))

\* range(0, n, g) as the sequence of its values: 0, g, 2g, ... below n
RangeStep(n, g) ==
    LET vals == {i \in 0..(n - 1) : i % g = 0}
    IN  [k \in 1..Cardinality(vals) |-> (k - 1) * g]

\* build_plan losing the last group: range(0, len(enabled) - 1, g)
build_plan_short(chs, gs) ==
    LET enabled == SelectSeq(chs, LAMBDA c : c.enabled)
        g == Max(1, gs)
        starts == RangeStep(Len(enabled) - 1, g)
    IN  [k \in DOMAIN starts |-> Slice(enabled, starts[k], g)]

\* build_plan: enabled chapters cut into consecutive groups of g
build_plan(chs, gs) ==
    LET enabled == SelectSeq(chs, LAMBDA c : c.enabled)
        g == Max(1, gs)
        starts == RangeStep(Len(enabled), g)
    IN  [k \in DOMAIN starts |-> Slice(enabled, starts[k], g)]

\* vnum = start_v + idx, for idx counted from 0 by enumerate (here from 1)
vnum_of(sv, k) == sv + (k - 1)

\* start_v = max(1, int(self.start_volume.get()))
start_v_of(sv) == Max(1, sv)

\* str(n) for n >= 0
RECURSIVE str(_)
str(n) ==
    LET digits == <<"0", "1", "2", "3", "4", "5", "6", "7", "8", "9">>
    IN  IF n < 10 THEN <<digits[n + 1]>> ELSE str(n \div 10) \o <<digits[(n % 10) + 1]>>

\* the field cut to two characters
format_02d_two_chars(n) == SubSeq(IF n < 10 THEN <<"0">> \o str(n) ELSE str(n), 1, 2)

\* f"{n:02d}": the decimal digits of n, zero-padded to two, never cut
format_02d(n) == IF n < 10 THEN <<"0">> \o str(n) ELSE str(n)

\* vol_tmp = temp_dir / f"vol_{vnum:02d}": the name of the volume's directory in temp/
vol_tmp(vnum) == <<"v", "o", "l", "_">> \o format_02d(vnum)

\* the rows update_plan_view inserts into plan_tree
plan_view(chs, gs, sv) ==
    LET p == build_plan(chs, gs)
    IN  [k \in DOMAIN p |->
            [vnum |-> vnum_of(start_v_of(sv), k),
             pages |-> SumSeq([c \in DOMAIN p[k] |-> pages(p[k][c])]),
             chapters |-> [c \in DOMAIN p[k] |-> p[k][c].name]]]

----------------------------------------------------------------------------
(* Profiles: names are sequences of characters, keys are the tuples Python
   compares, regular expressions are searched as re.search searches them *)

\* the characters names are written with, in code-point order
CodePoints ==
    <<" ", "(", ")", ".", "/", "0", "1", "2", "3", "4", "5", "6", "7", "8", "9", "A",
      "B", "C", "D", "E", "F", "G", "H", "I", "J", "K", "L", "M", "N",
      "O", "P", "Q", "R", "S", "T", "U", "V", "W", "X", "Y", "Z", "a",
      "b", "c", "d", "e", "f", "g", "h", "i", "j", "k", "l", "m", "n",
      "o", "p", "q", "r", "s", "t", "u", "v", "w", "x", "y", "z">>

ord(c) == CHOOSE i \in DOMAIN CodePoints : CodePoints[i] = c

isdigit(c) == ord(c) \in ord("0")..ord("9")

isspace(c) == c = " "

\* str.lower
lower(s) ==
    [i \in DOMAIN s |->
        IF ord(s[i]) \in ord("A")..ord("Z") THEN CodePoints[ord(s[i]) - ord("A") + ord("a")]
        ELSE s[i]]

\* int(digits)
RECURSIVE int(_)
int(ds) ==
    IF ds = <<>> THEN 0
    ELSE int(SubSeq(ds, 1, Len(ds) - 1)) * 10 + (ord(ds[Len(ds)]) - ord("0"))

\* a < b for str: by code point, a proper prefix first
StrLess(a, b) ==
    \E k \in 1..(Len(a) + 1) :
        /\ k - 1 <= Len(b)
        /\ SubSeq(a, 1, k - 1) = SubSeq(b, 1, k - 1)
        /\ \/ (k = Len(a) + 1 /\ k <= Len(b))
           \/ (k <= Len(a) /\ k <= Len(b) /\ ord(a[k]) < ord(b[k]))

\* k1 < k2 for the tuples (0, n) and (1, name)
KeyLess(k1, k2) ==
    \/ k1[1] < k2[1]
    \/ /\ k1[1] = k2[1]
       /\ IF k1[1] = 0 THEN k1[2] < k2[2] ELSE StrLess(k1[2], k2[2])

\* t occurs in s at position p
startswith_at(s, p, t) == p + Len(t) - 1 <= Len(s) /\ SubSeq(s, p, p + Len(t) - 1) = t

endswith(s, t) == Len(t) <= Len(s) /\ SubSeq(s, Len(s) - Len(t) + 1, Len(s)) = t

\* the longest run of digits of s that starts at d / that ends at e
DigitRunFrom(s, d) ==
    LET e == CHOOSE x \in d..Len(s) :
                 (\A k \in d..x : isdigit(s[k])) /\ (x = Len(s) \/ ~isdigit(s[x + 1]))
    IN  SubSeq(s, d, e)

DigitRunTo(s, e) ==
    LET d == CHOOSE x \in 1..e :
                 (\A k \in x..e : isdigit(s[k])) /\ (x = 1 \/ ~isdigit(s[x - 1]))
    IN  SubSeq(s, d, e)

\* PROFILES
PROFILES ==
    [TMO |-> [key |-> "TMO", expects_subfolders |-> TRUE],
     INMANGA |-> [key |-> "INMANGA", expects_subfolders |-> TRUE]]

\* the alternatives jpg|jpeg|png|webp of the image patterns
Extensions == {<<"j", "p", "g">>, <<"j", "p", "e", "g">>, <<"p", "n", "g">>, <<"w", "e", "b", "p">>}

\* image_file_regex.search(name).group(1), <<>> without a match. TMO is
\* (\d+)\.(?:jpg|jpeg|png|webp)$ and INMANGA 0*?(\d+)\.(?:jpg|jpeg|png|webp)$,
\* both re.I: the leftmost match starts where the digits before the final
\* dot start, the lazy 0*? takes nothing there, and the group is the run
image_file_regex(key, name) ==
    LET l == lower(name)
        ends == {e \in Extensions : endswith(l, <<".">> \o e)}
    IN  IF ends = {} THEN <<>>
        ELSE LET e == CHOOSE x \in ends : TRUE
                 dot == Len(name) - Len(e)
             IN  IF dot > 1 /\ isdigit(name[dot - 1]) THEN DigitRunTo(name, dot - 1) ELSE <<>>

\* the alternatives cap[i,i-acute]tulo|chapter|ch of the TMO chapter pattern
Keywords == {<<"c", "a", "p", "i", "t", "u", "l", "o">>, <<"c", "h", "a", "p", "t", "e", "r">>, <<"c", "h">>}

\* chapter_dir_regex.search(name).group(1), <<>> without a match. TMO is
\* (?:cap[i,i-acute]tulo|chapter|ch)[^\d]*(\d+): the first run of digits after the
\* leftmost keyword that has a digit after it. INMANGA is
\* chapter\s*0*?(\d+)$: "chapter", white space, then digits up to the end
chapter_dir_regex(key, name) ==
    LET l == lower(name)
    IN  IF key = "TMO"
        THEN LET hits == {p \in DOMAIN l :
                             \E kw \in Keywords :
                                 /\ startswith_at(l, p, kw)
                                 /\ \E d \in (p + Len(kw))..Len(l) : isdigit(l[d])}
             IN  IF hits = {} THEN <<>>
                 ELSE LET p == CHOOSE x \in hits : \A y \in hits : x <= y
                          kw == CHOOSE k \in Keywords : startswith_at(l, p, k)
                          d == CHOOSE x \in (p + Len(kw))..Len(l) :
                                   isdigit(l[x]) /\ \A y \in (p + Len(kw))..(x - 1) : ~isdigit(l[y])
                      IN  DigitRunFrom(name, d)
        ELSE LET word == <<"c", "h", "a", "p", "t", "e", "r">>
                 starts == {p \in DOMAIN l : startswith_at(l, p, word)}
                 hits == {d \in DOMAIN l :
                             /\ \A k \in d..Len(l) : isdigit(l[k])
                             /\ \E p \in starts :
                                   /\ p + Len(word) <= d
                                   /\ \A k \in (p + Len(word))..(d - 1) : isspace(l[k])}
             IN  IF hits = {} THEN <<>>
                 ELSE SubSeq(name, CHOOSE x \in hits : \A y \in hits : x <= y, Len(name))

\* the key with the pattern never consulted: always (1, name.lower())
sort_image_key_lexicographic(key, name) == <<1, lower(name)>>

\* SourceProfile.sort_image_key
sort_image_key(key, name) ==
    LET g == image_file_regex(key, name)
    IN  IF g # <<>> THEN <<0, int(g)>> ELSE <<1, lower(name)>>

\* SourceProfile.sort_chapter_key
sort_chapter_key(key, name) ==
    LET g == chapter_dir_regex(key, name)
    IN  IF g # <<>> THEN <<0, int(g)>> ELSE <<1, lower(name)>>

\* list.sort(key=...) on entries [key, val]: ascending by key, entries of
\* equal key in the order they had (the sort is stable)
RECURSIVE list_sort(_)
list_sort(items) ==
    IF items = <<>> THEN <<>>
    ELSE LET init == list_sort(SubSeq(items, 1, Len(items) - 1))
             x == items[Len(items)]
             pos == Cardinality({i \in DOMAIN init : ~KeyLess(x.key, init[i].key)})
         IN  SubSeq(init, 1, pos) \o <<x>> \o SubSeq(init, pos + 1, Len(init))

----------------------------------------------------------------------------
(* Settings *)

\* __init__: the Tk variables of the enhancement configuration and their
\* initial values (multipliers in hundredths)
DefaultConfig ==
    [target_width |-> 1200, jpg_quality |-> 84,
     contrast_boost |-> 115, sharpness_boost |-> 120,
     noise_reduction |-> TRUE, auto_contrast |-> TRUE,
     to_grayscale |-> FALSE, adaptive_threshold |-> FALSE,
     preset_name |-> "Manga limpio (rapido)", eink_dither |-> FALSE]

\* setup_config_tab: the values each widget of the configuration can be set to
\* (the initial value and the upper end of each spinbox and scale, both states
\* of each checkbutton, two entries of the combobox)
ConfigDomain ==
    [target_width |-> {1200, 2000}, jpg_quality |-> {84, 100},
     contrast_boost |-> {115, 200}, sharpness_boost |-> {120, 300},
     noise_reduction |-> BOOLEAN, auto_contrast |-> BOOLEAN,
     to_grayscale |-> BOOLEAN, adaptive_threshold |-> BOOLEAN,
     preset_name |-> {"Manga limpio (rapido)", "Texto pequeno B/N (letra clara)"},
     eink_dither |-> BOOLEAN]

\* the directories select_folder can be pointed at: the number of image files
\* directly in the root and in each subdirectory (in chapter-key order)
Folders ==
    {[root |-> r, subs |-> s] :
        r \in {MaxRootImages},
        s \in {t \in [1..MaxChapters -> 0..MaxImages] : SumSeq(t) <= MaxPages}}

\* the image files of directory d, n of them, in image-key order
ImagesOf(d, n) == [k \in 1..n |-> <<d, k>>]

\* Path.suffix: from the last dot on, unless the name starts or ends with it
suffix(name) ==
    LET dots == {i \in DOMAIN name : name[i] = "."}
    IN  IF dots = {} THEN <<>>
        ELSE LET i == CHOOSE x \in dots : \A y \in dots : y <= x
             IN  IF 1 < i /\ i < Len(name) THEN SubSeq(name, i, Len(name)) ELSE <<>>

\* formats = {'.jpg', '.jpeg', '.png', '.webp'}
formats == {<<".">> \o e : e \in Extensions}

\* the test of lines 495 and 500 with the extension not looked at
is_image_any_file(f) == ~f.is_dir

\* f.is_file() and f.suffix.lower() in formats, for a directory entry
\* f = [name, is_dir, entries]
is_image(f) == ~f.is_dir /\ lower(suffix(f.name)) \in formats

\* lines 495-496 / 500-501: the image files of directory d, as iterdir listed
\* them and then sorted by image key; a path is <<directory name, file name>>
list_images(d, key) ==
    LET files == SelectSeq(d.entries, is_image)
        sorted == list_sort([i \in DOMAIN files |->
                                [key |-> sort_image_key(key, files[i].name), val |-> files[i].name]])
    IN  [i \in DOMAIN sorted |-> <<d.name, sorted[i].val>>]

\* scan_images on a folder given by its listing [name, is_dir, entries],
\* entries being the directory entries in the order iterdir yields them
scan_listing(folder, key, subfolders) ==
    IF PROFILES[key].expects_subfolders /\ subfolders
    THEN LET subdirs == SelectSeq(folder.entries, LAMBDA d : d.is_dir)
             sorted == list_sort([i \in DOMAIN subdirs |->
                                     [key |-> sort_chapter_key(key, subdirs[i].name),
                                      val |-> subdirs[i]]])
             found == [i \in DOMAIN sorted |->
                          Chapter(sorted[i].val.name, list_images(sorted[i].val, key))]
         IN  SelectSeq(found, LAMBDA c : c.images # <<>>)
    ELSE LET files == list_images(folder, key)
         IN  IF files # <<>> THEN <<Chapter(folder.name, files)>> ELSE <<>>

\* scan_images: the chapter list found under folder. A folder is given either
\* by its listing or, with the sorting and filtering already done, by the
\* number of image files in the root and in each subdirectory
scan_images(folder, subfolders) ==
    IF folder = None THEN <<>>
    ELSE IF "entries" \in DOMAIN folder THEN scan_listing(folder, profile_key, subfolders)
    ELSE IF subfolders
    THEN LET found == [d \in DOMAIN folder.subs |-> Chapter(d, ImagesOf(d, folder.subs[d]))]
         IN  SelectSeq(found, LAMBDA c : c.images # <<>>)
    ELSE IF folder.root > 0 THEN <<Chapter(0, ImagesOf(0, folder.root))>> ELSE <<>>

\* self.log(message)
Logged(msg) == log' = log \cup {msg}

\* select_folder: a folder is chosen in the dialog, then scanned
select_folder(f) ==
    /\ ops < MaxOps
    /\ ops' = ops + 1
    /\ selected_folder' = f
    /\ chapters' = scan_images(f, process_subfolders)
    /\ plan_tree' = plan_view(chapters', group_size, start_volume)
    /\ Logged([kind |-> "scan", n |-> Len(chapters')])
    /\ UNCHANGED <<process_subfolders, group_size, start_volume, config,
                   clean_temp_before, clean_ebooks_before>>
    /\ UNCHANGED <<threadVars, workerVars, fsVars, histVars, envVars, profile_key, previewVars>>

\* the subfolder checkbutton (command=rescan_if_ready)
rescan_if_ready ==
    /\ ops < MaxOps
    /\ ops' = ops + 1
    /\ process_subfolders' = ~process_subfolders
    /\ IF selected_folder # None
       THEN /\ chapters' = scan_images(selected_folder, process_subfolders')
            /\ plan_tree' = plan_view(chapters', group_size, start_volume)
            /\ Logged([kind |-> "scan", n |-> Len(chapters')])
       ELSE UNCHANGED <<chapters, plan_tree, log>>
    /\ UNCHANGED <<selected_folder, group_size, start_volume, config,
                   clean_temp_before, clean_ebooks_before>>
    /\ UNCHANGED <<threadVars, workerVars, fsVars, histVars, envVars, profile_key, previewVars>>

\* the swap written as one assignment: entry j is lost, entry i doubled
SwapOverwrite(s, i, j) == [s EXCEPT ![j] = s[i]]

\* the profile combobox (textvariable=self.profile_key): nothing is rescanned
set_profile_key(k) ==
    /\ ops < MaxOps
    /\ ops' = ops + 1
    /\ k # profile_key
    /\ profile_key' = k
    /\ UNCHANGED <<selected_folder, process_subfolders, chapters, group_size, start_volume,
                   plan_tree, config, clean_temp_before, clean_ebooks_before, log>>
    /\ UNCHANGED <<threadVars, workerVars, fsVars, histVars, envVars, previewVars>>

\* the list after swapping entries i and j
Swap(s, i, j) == [s EXCEPT ![i] = s[j], ![j] = s[i]]

\* move_chapter(delta) with entry i selected
move_chapter(i, delta) ==
    /\ ops < MaxOps
    /\ i \in DOMAIN chapters
    /\ LET j == i + delta
       IN  IF j \in DOMAIN chapters
           THEN /\ chapters' = Swap(chapters, i, j)
                /\ plan_tree' = plan_view(chapters', group_size, start_volume)
                /\ ops' = ops + 1
           ELSE UNCHANGED <<chapters, plan_tree, ops>>
    /\ UNCHANGED <<selected_folder, process_subfolders, group_size, start_volume,
                   config, clean_temp_before, clean_ebooks_before, log>>
    /\ UNCHANGED <<threadVars, workerVars, fsVars, histVars, envVars, profile_key, previewVars>>

\* toggle_chapter with entry i selected
toggle_chapter(i) ==
    /\ ops < MaxOps
    /\ ops' = ops + 1
    /\ i \in DOMAIN chapters
    /\ chapters' = [chapters EXCEPT ![i].enabled = ~chapters[i].enabled]
    /\ plan_tree' = plan_view(chapters', group_size, start_volume)
    /\ UNCHANGED <<selected_folder, process_subfolders, group_size, start_volume,
                   config, clean_temp_before, clean_ebooks_before, log>>
    /\ UNCHANGED <<threadVars, workerVars, fsVars, histVars, envVars, profile_key, previewVars>>

\* update_plan_view (button "Recalcular plan")
update_plan_view ==
    /\ plan_tree' = plan_view(chapters, group_size, start_volume)
    /\ UNCHANGED <<selected_folder, process_subfolders, chapters, group_size,
                   start_volume, config, clean_temp_before, clean_ebooks_before,
                   log, ops>>
    /\ UNCHANGED <<threadVars, workerVars, fsVars, histVars, envVars, profile_key, previewVars>>

\* a value typed into the group-size spinbox (textvariable=self.group_size)
set_group_size(g) ==
    /\ ops < MaxOps
    /\ ops' = ops + 1
    /\ g # group_size
    /\ group_size' = g
    /\ UNCHANGED <<selected_folder, process_subfolders, chapters, start_volume,
                   plan_tree, config, clean_temp_before, clean_ebooks_before, log>>
    /\ UNCHANGED <<threadVars, workerVars, fsVars, histVars, envVars, profile_key, previewVars>>

\* a value typed into the start-volume spinbox (textvariable=self.start_volume)
set_start_volume(s) ==
    /\ ops < MaxOps
    /\ ops' = ops + 1
    /\ s # start_volume
    /\ start_volume' = s
    /\ UNCHANGED <<selected_folder, process_subfolders, chapters, group_size,
                   plan_tree, config, clean_temp_before, clean_ebooks_before, log>>
    /\ UNCHANGED <<threadVars, workerVars, fsVars, histVars, envVars, profile_key, previewVars>>

\* a widget of the enhancement configuration is set to another value
set_config(field, v) ==
    /\ ops < MaxOps
    /\ ops' = ops + 1
    /\ v # config[field]
    /\ config' = [config EXCEPT ![field] = v]
    /\ UNCHANGED <<selected_folder, process_subfolders, chapters, group_size,
                   start_volume, plan_tree, clean_temp_before, clean_ebooks_before, log>>
    /\ UNCHANGED <<threadVars, workerVars, fsVars, histVars, envVars, profile_key, previewVars>>

\* the two checkbuttons "Limpieza automatica antes de convertir"
set_clean(t, e) ==
    /\ ops < MaxOps
    /\ ops' = ops + 1
    /\ <<t, e>> # <<clean_temp_before, clean_ebooks_before>>
    /\ (t = clean_temp_before) \/ (e = clean_ebooks_before)
    /\ clean_temp_before' = t
    /\ clean_ebooks_before' = e
    /\ UNCHANGED <<selected_folder, process_subfolders, chapters, group_size,
                   start_volume, plan_tree, config, log>>
    /\ UNCHANGED <<threadVars, workerVars, fsVars, histVars, envVars, profile_key, previewVars>>

----------------------------------------------------------------------------
(* Enhancement pipeline: an image is [src, width, stages], stages being the
   transforms applied to the source pixels so far, in order *)

SourceWidth == 1600     \* width in pixels of a scanned page

\* Image.open(path).convert("RGB")
OpenImage(path) == [src |-> path, width |-> SourceWidth, stages |-> <<>>]

Apply(img, st) == [img EXCEPT !.stages = img.stages \o st]

\* the cv2 calls of the pipeline that have a handler or a fallback somewhere
Cv2Calls == {"bilateralFilter", "adaptiveThreshold", "fastNlMeansDenoisingColored",
             "niBlackThreshold"}

\* what a sub-step gives: the stages it applied, or the call that threw
Done(st) == [ok |-> TRUE, stages |-> st]
Raise(fn) == [ok |-> FALSE, raised |-> fn]

\* _nl_means: non-local means, bilateral smoothing when that throws
nl_means(strength, raises) ==
    IF "fastNlMeansDenoisingColored" \notin raises THEN Done(<<<<"nl_means", strength>>>>)
    ELSE IF "bilateralFilter" \notin raises THEN Done(<<<<"bilateral", 9>>>>)
    ELSE Raise("bilateralFilter")

\* _sauvola_like: Niblack when ximgproc was importable, else Gaussian
\* adaptive threshold; neither call is guarded
sauvola_like(ximgproc, raises) ==
    IF ximgproc
    THEN IF "niBlackThreshold" \in raises THEN Raise("niBlackThreshold")
         ELSE Done(<<<<"niblack", 35>>>>)
    ELSE IF "adaptiveThreshold" \in raises THEN Raise("adaptiveThreshold")
         ELSE Done(<<<<"adaptive_threshold", 35>>>>)

\* the four presets offered (comp_presets holds one of each)
CompPresets ==
    <<"Manga limpio (rapido)", "Manga antiguo / bajo contraste",
      "Escaneo con artefactos JPEG", "Texto pequeno B/N (letra clara)">>

\* the identifiers enhance_image_preset is given in the model, each with its
\* characters: the five entries of the preset comboboxes (accents written
\* without), and other spellings
Chars ==
    "Manga limpio (rapido)" :>
        <<"M", "a", "n", "g", "a", " ", "l", "i", "m", "p", "i", "o", " ", "(", "r", "a",
         "p", "i", "d", "o", ")">> @@
    "Manga antiguo / bajo contraste" :>
        <<"M", "a", "n", "g", "a", " ", "a", "n", "t", "i", "g", "u", "o", " ", "/", " ",
         "b", "a", "j", "o", " ", "c", "o", "n", "t", "r", "a", "s", "t", "e">> @@
    "Escaneo con artefactos JPEG" :>
        <<"E", "s", "c", "a", "n", "e", "o", " ", "c", "o", "n", " ", "a", "r", "t", "e",
         "f", "a", "c", "t", "o", "s", " ", "J", "P", "E", "G">> @@
    "Texto pequeno B/N (letra clara)" :>
        <<"T", "e", "x", "t", "o", " ", "p", "e", "q", "u", "e", "n", "o", " ", "B", "/",
         "N", " ", "(", "l", "e", "t", "r", "a", " ", "c", "l", "a", "r", "a", ")">> @@
    "Solo recorte y margenes" :>
        <<"S", "o", "l", "o", " ", "r", "e", "c", "o", "r", "t", "e", " ", "y", " ", "m",
         "a", "r", "g", "e", "n", "e", "s">> @@
    "  MANGA LIMPIO  " :>
        <<" ", " ", "M", "A", "N", "G", "A", " ", "L", "I", "M", "P", "I", "O", " ", " ">> @@
    "manga limpio" :> <<"m", "a", "n", "g", "a", " ", "l", "i", "m", "p", "i", "o">> @@
    "Manga" :> <<"M", "a", "n", "g", "a">> @@
    "Manga  limpio" :> <<"M", "a", "n", "g", "a", " ", " ", "l", "i", "m", "p", "i", "o">> @@
    "x Manga limpio" :>
        <<"x", " ", "M", "a", "n", "g", "a", " ", "l", "i", "m", "p", "i", "o">> @@
    "manga limpio manga antiguo" :>
        <<"m", "a", "n", "g", "a", " ", "l", "i", "m", "p", "i", "o", " ", "m", "a", "n",
         "g", "a", " ", "a", "n", "t", "i", "g", "u", "o">> @@
    " manga ANTIGUO" :>
        <<" ", "m", "a", "n", "g", "a", " ", "A", "N", "T", "I", "G", "U", "O">> @@
    "ESCANEO CON ARTEFACTOS" :>
        <<"E", "S", "C", "A", "N", "E", "O", " ", "C", "O", "N", " ", "A", "R", "T", "E",
         "F", "A", "C", "T", "O", "S">> @@
    "escaneo" :> <<"e", "s", "c", "a", "n", "e", "o">> @@
    "Texto Pequeno" :> <<"T", "e", "x", "t", "o", " ", "P", "e", "q", "u", "e", "n", "o">> @@
    " solo recorte " :>
        <<" ", "s", "o", "l", "o", " ", "r", "e", "c", "o", "r", "t", "e", " ">> @@
    "Solo" :> <<"S", "o", "l", "o">> @@
    "Desconocido" :> <<"D", "e", "s", "c", "o", "n", "o", "c", "i", "d", "o">> @@
    "" :> <<>> @@
    "  " :> <<" ", " ">>

\* str.strip
strip(s) ==
    LET body == {k \in DOMAIN s : ~isspace(s[k])}
    IN  IF body = {} THEN <<>>
        ELSE SubSeq(s, CHOOSE a \in body : \A k \in body : a <= k,
                       CHOOSE b \in body : \A k \in body : k <= b)

\* the prefixes tested by the if/elif chain of lines 875-892, in its order
PresetPrefixes ==
    <<<<"m", "a", "n", "g", "a", " ", "l", "i", "m", "p", "i", "o">>,
      <<"m", "a", "n", "g", "a", " ", "a", "n", "t", "i", "g", "u", "o">>,
      <<"e", "s", "c", "a", "n", "e", "o", " ", "c", "o", "n", " ", "a", "r", "t", "e", "f", "a", "c", "t", "o", "s">>,
      <<"t", "e", "x", "t", "o", " ", "p", "e", "q", "u", "e", "n", "o">>,
      <<"s", "o", "l", "o", " ", "r", "e", "c", "o", "r", "t", "e">>>>

\* the chain testing the identifier as it was passed, case and all
dispatch_case_sensitive(preset) ==
    LET p == strip(Chars[preset])
        hits == {k \in DOMAIN PresetPrefixes : startswith_at(p, 1, PresetPrefixes[k])}
    IN  IF hits = {} THEN 0 ELSE CHOOSE k \in hits : \A j \in hits : k <= j

\* p = preset.strip().lower() and the if/elif chain on p.startswith(...):
\* the first prefix that matches, 0 when none does
dispatch(preset) ==
    LET p == lower(strip(Chars[preset]))
        hits == {k \in DOMAIN PresetPrefixes : startswith_at(p, 1, PresetPrefixes[k])}
    IN  IF hits = {} THEN 0 ELSE CHOOSE k \in hits : \A j \in hits : k <= j

\* the outcome of the chain for each identifier
selected == [preset \in DOMAIN Chars |-> dispatch(preset)]

\* the branch of enhance_image_preset the chain selects; unsharp carries
\* radius and amount in tenths. The crop-only branch is pass, and a preset
\* no prefix matches runs no branch
preset_branch(preset, ximgproc, raises) ==
    LET b == selected[preset]
    IN  CASE b = 1 -> Done(<<<<"clahe", 20>>, <<"unsharp", 10, 6>>>>)
          [] b = 2 -> Done(<<<<"clahe", 26>>, <<"unsharp", 10, 5>>>>)
          [] b = 3 ->
                LET d == nl_means(6, raises)
                IN  IF d.ok THEN Done(d.stages \o <<<<"unsharp", 12, 6>>>>) ELSE d
          [] b = 4 -> sauvola_like(ximgproc, raises)
          [] OTHER -> Done(<<>>)

\* lines 851-870: the toggled basics, the two cv2 ones skipped when they throw
pre_pass(cfg, raises) ==
    (IF cfg.to_grayscale THEN <<<<"grayscale", 0>>>> ELSE <<>>)
    \o (IF cfg.auto_contrast THEN <<<<"autocontrast", 0>>>> ELSE <<>>)
    \o (IF cfg.noise_reduction /\ "bilateralFilter" \notin raises
        THEN <<<<"bilateral", 9>>>> ELSE <<>>)
    \o (IF cfg.adaptive_threshold /\ "adaptiveThreshold" \notin raises
        THEN <<<<"adaptive_threshold", 35>>>> ELSE <<>>)

\* the fine tuning with the two enhancers exchanged
fine_tune_sharpness_first(cfg) ==
    <<<<"trim_pad", 16>>, <<"sharpness", cfg.sharpness_boost>>, <<"contrast", cfg.contrast_boost>>>>

\* lines 895-900: _auto_trim_and_pad, then contrast, then sharpness
fine_tune(cfg) ==
    <<<<"trim_pad", 16>>, <<"contrast", cfg.contrast_boost>>, <<"sharpness", cfg.sharpness_boost>>>>

\* the dither drawing on how many previews were rendered before
apply_eink_dither_seeded == <<"dither", 256 + Cardinality(renders)>>

\* _apply_eink_dither: Floyd-Steinberg to an adaptive palette of 256 colours
apply_eink_dither == <<"dither", 256>>

\* enhance_image_preset with the configuration cfg it reads: the image, or
\* the call whose exception leaves the function
enhance_image_preset(img, preset, cfg, ximgproc, raises) ==
    LET branch == preset_branch(preset, ximgproc, raises)
        dither == IF cfg.eink_dither THEN <<apply_eink_dither>> ELSE <<>>
    IN  IF branch.ok
        THEN [ok |-> TRUE,
              img |-> Apply(img, pre_pass(cfg, raises) \o branch.stages \o fine_tune(cfg) \o dither)]
        ELSE branch

\* enhance_image: the pipeline with the preset currently selected
enhance_image(img, cfg, ximgproc, raises) ==
    enhance_image_preset(img, cfg.preset_name, cfg, ximgproc, raises)

\* the page file process_single_image_seq saves for path under configuration cfg
PageFile(path, cfg, ximgproc) ==
    LET img == OpenImage(path)
        resized == IF img.width > cfg.target_width
                   THEN Apply([img EXCEPT !.width = cfg.target_width], <<<<"resize", cfg.target_width>>>>)
                   ELSE img
    IN  [img |-> enhance_image(resized, cfg, ximgproc, cv2_raises).img, quality |-> cfg.jpg_quality]

----------------------------------------------------------------------------
(* Preview tab *)

\* the entries of the preset combobox of the configuration tab
Presets ==
    {CompPresets[k] : k \in DOMAIN CompPresets} \cup {"Solo recorte y margenes"}

\* the entries of the preview mode combobox
PreviewModes == {"Antes/Despues", "2x2"}

\* the preview mode combobox is set to another entry
set_preview_mode(m) ==
    /\ m # preview_mode
    /\ preview_mode' = m
    /\ UNCHANGED <<preview, renders>>
    /\ UNCHANGED <<selected_folder, process_subfolders, chapters, group_size,
                   start_volume, plan_tree, config, clean_temp_before,
                   clean_ebooks_before, log, ops, profile_key>>
    /\ UNCHANGED <<threadVars, workerVars, fsVars, histVars, envVars>>

\* the calls of enhance_image_preset render_preview_now makes on orig, in
\* order: one with the selected preset, or one per cell of the 2x2 grid
PreviewCalls(orig) ==
    LET ps == IF preview_mode = "Antes/Despues" THEN <<config.preset_name>> ELSE CompPresets
    IN  [k \in DOMAIN ps |->
            [mode |-> preview_mode, img |-> orig, preset |-> ps[k], cfg |-> config,
             ximgproc |-> has_ximgproc, raises |-> cv2_raises,
             out |-> enhance_image_preset(orig, ps[k], config, has_ximgproc, cv2_raises)]]

\* "Actualizar vista": the first image of the selected chapter (i = 0: none
\* selected) is opened and put through the pipeline; an exception of the
\* pipeline leaves the callback before anything is composed
render_preview_now(i, readable) ==
    /\ i \in 0..Len(chapters)
    /\ IF i = 0 \/ ~readable
       THEN /\ preview' = None
            /\ UNCHANGED renders
       ELSE LET cs == PreviewCalls(OpenImage(chapters[i].images[1]))
                bad == {k \in DOMAIN cs : ~cs[k].out.ok}
                made == {k \in DOMAIN cs : \A j \in bad : k <= j}
            IN  /\ renders' = renders \cup {cs[k] : k \in made}
                /\ preview' = IF bad = {}
                              THEN [mode |-> preview_mode,
                                    orig |-> cs[1].img,
                                    procs |-> [k \in DOMAIN cs |-> cs[k].out.img]]
                              ELSE preview
    /\ UNCHANGED preview_mode
    /\ UNCHANGED <<selected_folder, process_subfolders, chapters, group_size,
                   start_volume, plan_tree, config, clean_temp_before,
                   clean_ebooks_before, log, ops, profile_key>>
    /\ UNCHANGED <<threadVars, workerVars, fsVars, histVars, envVars>>

----------------------------------------------------------------------------
(* Directories *)

NoFiles == [k \in {} |-> 0]

\* d with file name holding content
WriteFile(d, name, content) ==
    [k \in DOMAIN d \cup {name} |-> IF k = name THEN content ELSE d[k]]

\* d without file name
RemoveFile(d, name) == [k \in DOMAIN d \ {name} |-> d[k]]

\* the page file left in temp/vol_01 and the ebook left in ebooks/ by an earlier session
OldPage == [img |-> [src |-> <<0, 0>>, width |-> SourceWidth, stages |-> <<>>], quality |-> 84]
OldTemp == WriteFile(NoFiles, vol_tmp(1), WriteFile(NoFiles, 1, OldPage))
OldEbooks == WriteFile(NoFiles, <<"final", format_02d(1), 0>>, [mtime |-> 0, vol |-> 0])

----------------------------------------------------------------------------
(* Export run *)

\* the guard of line 957 left out: a thread is started whatever runs
is_running_ignored(wt, al) == FALSE

\* self.worker_thread and self.worker_thread.is_alive()
is_running(wt, al) == wt # 0 /\ wt \in al

\* start_process_thread (the start button, which can be pressed while enabled)
start_process_thread ==
    /\ btn_convert = "normal"
    /\ IF is_running(worker_thread, alive)
       THEN UNCHANGED <<threadVars, workerVars, histVars, ops>>
       ELSE /\ ops < MaxOps
            /\ ops' = ops + 1
            /\ cancel_event' = FALSE
            /\ btn_convert' = "disabled"
            /\ btn_cancel' = "normal"
            /\ worker_thread' = worker_thread + 1
            /\ alive' = alive \cup {worker_thread'}
            /\ pc' = "precheck"
            /\ UNCHANGED <<plan, start_v, idx, ci, ii, seq, created>>
            /\ calls' = <<>>
            /\ kcc_runs' = <<>>
            /\ run_cfg' = config
            /\ fs_at_start' = <<temp, ebooks>>
            /\ run_chapters' = chapters
    /\ UNCHANGED <<uiVars, fsVars, envVars, log>>

\* cancel_process (the cancel button, which can be pressed while enabled)
cancel_process ==
    /\ btn_cancel = "normal"
    /\ cancel_event' = TRUE
    /\ Logged([kind |-> "cancelling"])
    /\ UNCHANGED <<btn_convert, btn_cancel, worker_thread, alive>>
    /\ UNCHANGED <<uiVars, workerVars, fsVars, histVars, envVars, ops>>

\* the test of line 975 left out: an empty plan is run like any other
precheck_no_plan_test(folder, p) ==
    IF folder = None THEN "no_folder" ELSE "ok"

\* the two tests of lines 971-977: which fatal precondition ends the run
precheck(folder, p) ==
    IF folder = None THEN "no_folder"
    ELSE IF p = <<>> THEN "no_chapters"
    ELSE "ok"

\* _process_plan_worker, lines 971-977: the fatal preconditions
worker_precheck ==
    /\ pc = "precheck"
    /\ LET p == build_plan(chapters, group_size)
           res == precheck(selected_folder, p)
       IN  /\ plan' = IF selected_folder = None THEN plan ELSE p
           /\ IF res = "ok"
              THEN /\ pc' = "prepare"
                   /\ UNCHANGED log
              ELSE /\ Logged([kind |-> res])
                   /\ pc' = "finally"
    /\ UNCHANGED <<start_v, idx, ci, ii, seq, created>>
    /\ UNCHANGED <<uiVars, threadVars, fsVars, histVars, envVars, ops>>

\* _process_plan_worker, lines 979-997: clean the directories, read the start
\* volume; raises stands for a call of these lines that throws
worker_prepare(raises) ==
    /\ pc = "prepare"
    /\ temp' = IF clean_temp_before THEN NoFiles ELSE temp
    /\ ebooks' = IF clean_ebooks_before THEN NoFiles ELSE ebooks
    /\ IF raises
       THEN /\ pc' = "finally"
            /\ UNCHANGED <<start_v, idx, created, log>>
       ELSE /\ Logged([kind |-> "start", total_vols |-> Len(plan)])
            /\ created' = 0
            /\ start_v' = start_v_of(start_volume)
            /\ idx' = 1
            /\ pc' = "vol_check"
    /\ UNCHANGED <<plan, ci, ii, seq, now>>
    /\ UNCHANGED <<uiVars, threadVars, histVars, envVars, ops>>

\* the flag never seen set by the worker
is_set_ignored(ev) == FALSE

\* self.cancel_event.is_set()
is_set(ev) == ev

\* _process_plan_worker, lines 998-1010 (and 1034 when the loop ends): the next
\* volume is set up, unless the plan is exhausted or the run cancelled
worker_vol_check ==
    /\ pc = "vol_check"
    /\ IF idx > Len(plan)
       THEN /\ Logged([kind |-> "finished", created |-> created])
            /\ pc' = "finally"
            /\ UNCHANGED <<seq, ci, ii, temp>>
       ELSE IF is_set(cancel_event)
       THEN /\ log' = log \cup {[kind |-> "cancelled"], [kind |-> "finished", created |-> created]}
            /\ pc' = "finally"
            /\ UNCHANGED <<seq, ci, ii, temp>>
       ELSE /\ temp' = WriteFile(temp, vol_tmp(vnum_of(start_v, idx)), NoFiles)
            /\ seq' = 1
            /\ ci' = 1
            /\ ii' = 1
            /\ pc' = "page_check"
            /\ UNCHANGED log
    /\ UNCHANGED <<plan, start_v, idx, created, ebooks, now>>
    /\ UNCHANGED <<uiVars, threadVars, histVars, envVars, ops>>

\* the chapter loop left after the first chapter of the volume
volume_done_after_first(vol, c) == c > 1

\* the loops of lines 1011-1012 are exhausted: c is the position of the next
\* chapter of vol
volume_done(vol, c) == c > Len(vol)

\* the page loop rolling a cancelled volume back: its directory is removed
worker_page_check_rollback ==
    /\ pc = "page_check"
    /\ IF is_set(cancel_event)
       THEN /\ log' = log \cup {[kind |-> "cancelled_after_export"],
                                [kind |-> "finished", created |-> created]}
            /\ temp' = RemoveFile(temp, vol_tmp(vnum_of(start_v, idx)))
            /\ pc' = "finally"
       ELSE /\ pc' = IF volume_done(plan[idx], ci) THEN "package" ELSE "page_run"
            /\ UNCHANGED <<log, temp>>
    /\ UNCHANGED <<plan, start_v, idx, ci, ii, seq, created, ebooks, now>>
    /\ UNCHANGED <<uiVars, threadVars, histVars, envVars, ops>>

\* _process_plan_worker, lines 1011-1014 and 1018-1023 (and 1034 when
\* cancelled): the cancel flag is read before the next image and after the
\* last one; a cancelled run leaves the loops without packaging the volume
worker_page_check ==
    /\ pc = "page_check"
    /\ IF is_set(cancel_event)
       THEN /\ log' = log \cup {[kind |-> "cancelled_after_export"],
                                [kind |-> "finished", created |-> created]}
            /\ pc' = "finally"
       ELSE /\ pc' = IF volume_done(plan[idx], ci) THEN "package" ELSE "page_run"
            /\ UNCHANGED log
    /\ UNCHANGED <<plan, start_v, idx, ci, ii, seq, created>>
    /\ UNCHANGED <<uiVars, threadVars, fsVars, histVars, envVars, ops>>

\* the counter advanced only for a page that was written
next_seq_if_written(s, ok) == IF ok THEN s + 1 ELSE s

\* seq += 1 (line 1016), whatever process_single_image_seq returned
next_seq(s, ok) == s + 1

\* the exception of a failed page let through to the worker's finally block
after_page_uncaught(ok) == IF ok THEN "page_check" ELSE "finally"

\* where the worker goes on after process_single_image_seq: its except
\* clause (lines 928-930) returns None, the loop goes on
after_page(ok) == "page_check"

\* the page file named by the 0-based position: seq_num - 1
process_single_image_seq_zero_based(dest, path, seq_num, ok, cfg, ximgproc) ==
    IF ok THEN WriteFile(dest, seq_num - 1, PageFile(path, cfg, ximgproc)) ELSE dest

\* process_single_image_seq(path, dest, seq_num): ok is whether opening,
\* transforming and saving all succeed; the directory dest afterwards (a
\* save that fails leaves no file: Image.save removes the file it created)
process_single_image_seq(dest, path, seq_num, ok, cfg, ximgproc) ==
    IF ok THEN WriteFile(dest, seq_num, PageFile(path, cfg, ximgproc)) ELSE dest

\* _process_plan_worker, lines 1015-1017: one page
worker_page_run(ok) ==
    /\ pc = "page_run"
    /\ LET vnum == vnum_of(start_v, idx)
           ch == plan[idx][ci]
           img == ch.images[ii]
       IN  /\ temp' = [temp EXCEPT ![vol_tmp(vnum)] =
                          process_single_image_seq(temp[vol_tmp(vnum)], img, seq, ok, config, has_ximgproc)]
           /\ IF ok THEN UNCHANGED log ELSE Logged([kind |-> "page_error", img |-> img])
           /\ calls' = Append(calls, [vol |-> idx, img |-> img, seq |-> seq, ok |-> ok,
                                      cfg |-> config])
           /\ seq' = next_seq(seq, ok)
           /\ IF ii < Len(ch.images)
              THEN /\ ii' = ii + 1
                   /\ ci' = ci
              ELSE /\ ii' = 1
                   /\ ci' = ci + 1
    /\ pc' = after_page(ok)
    /\ UNCHANGED <<plan, start_v, idx, created, ebooks, now>>
    /\ UNCHANGED <<uiVars, threadVars, kcc_runs, run_cfg, fs_at_start, run_chapters, envVars, ops>>

----------------------------------------------------------------------------
(* Packager *)

\* what running KCC on a volume directory can do: throw from subprocess.run,
\* return a non-zero status, return 0 having written an ebook, return 0
\* having written none
PackagerOutcomes == {"raises", "nonzero", "file", "nofile"}

\* new_name = output_dir / f"{output_name}.mobi", output_name being
\* f"{series} - v{vnum:02d}"
FinalName(vnum) == <<"final", format_02d(vnum), 0>>
\* f"{output_name}_{ts}.mobi"
StampedName(vnum, ts) == <<"ts", format_02d(vnum), ts>>
\* the file KCC writes, named after the volume directory
RawName(vnum) == <<"raw", format_02d(vnum), 0>>

\* max(mobis, key=lambda p: p.stat().st_mtime)
Newest(d) == CHOOSE n \in DOMAIN d : \A m \in DOMAIN d : d[m].mtime <= d[n].mtime

\* the lines 1128-1140 of convert_folder_to_mobi on the output directory d:
\* take the newest ebook and give it the volume's name
collect_output(d, vnum, ts) ==
    IF DOMAIN d = {}
    THEN [ok |-> FALSE, ebooks |-> d]
    ELSE LET mobi_file == Newest(d)
             new_name == IF FinalName(vnum) \in DOMAIN d
                         THEN StampedName(vnum, ts) ELSE FinalName(vnum)
         IN  [ok |-> TRUE, ebooks |-> WriteFile(RemoveFile(d, mobi_file), new_name, d[mobi_file])]

\* convert_folder_to_mobi(folder, output_name, ...): whether KCC was run,
\* the value returned and the output directory afterwards; ts is the time
\* at which KCC ends
convert_folder_to_mobi(folder, vnum, d, kcc, outcome, ts) ==
    IF ~kcc
    THEN [ran |-> FALSE, ok |-> FALSE, ebooks |-> d, msg |-> "no_kcc"]
    ELSE IF DOMAIN folder = {}
    THEN [ran |-> FALSE, ok |-> FALSE, ebooks |-> d, msg |-> "no_jpg"]
    ELSE IF outcome = "raises"
    THEN [ran |-> TRUE, ok |-> FALSE, ebooks |-> d, msg |-> "kcc_exception"]
    ELSE IF outcome = "nonzero"
    THEN [ran |-> TRUE, ok |-> FALSE, ebooks |-> d, msg |-> "kcc_status"]
    ELSE LET out == IF outcome = "file"
                    THEN WriteFile(d, RawName(vnum), [mtime |-> ts, vol |-> vnum])
                    ELSE d
             res == collect_output(out, vnum, ts)
         IN  [ran |-> TRUE, ok |-> res.ok, ebooks |-> res.ebooks,
              msg |-> IF res.ok THEN "mobi" ELSE "no_mobi"]

\* _process_plan_worker, lines 1025-1032: package the volume and count it;
\* kcc_exe is whether resolve_kcc_exe finds KCC_c2e_*.exe at this call
worker_package(kcc_exe, outcome) ==
    /\ pc = "package"
    /\ LET vnum == vnum_of(start_v, idx)
           res == convert_folder_to_mobi(temp[vol_tmp(vnum)], vnum, ebooks, kcc_exe, outcome, now + 1)
       IN  /\ ebooks' = res.ebooks
           /\ now' = IF res.ran THEN now + 1 ELSE now
           /\ kcc_runs' = IF res.ran
                          THEN Append(kcc_runs, [vol |-> idx, vnum |-> vnum, outcome |-> outcome,
                                                 ok |-> res.ok])
                          ELSE kcc_runs
           /\ created' = IF res.ok THEN created + 1 ELSE created
           /\ log' = log \cup {[kind |-> res.msg, vnum |-> vnum]}
                         \cup (IF res.ok THEN {} ELSE {[kind |-> "volume_failed", vnum |-> vnum]})
    /\ idx' = idx + 1
    /\ pc' = "vol_check"
    /\ UNCHANGED <<plan, start_v, ci, ii, seq, temp>>
    /\ UNCHANGED <<uiVars, threadVars, calls, run_cfg, fs_at_start, run_chapters, envVars, ops>>

\* the worker returning without touching the two buttons
worker_finally_no_reset ==
    /\ pc = "finally"
    /\ pc' = "exit"
    /\ UNCHANGED <<btn_convert, btn_cancel, cancel_event, worker_thread, alive>>
    /\ UNCHANGED <<plan, start_v, idx, ci, ii, seq, created>>
    /\ UNCHANGED <<uiVars, fsVars, histVars, envVars, log, ops>>

\* _process_plan_worker, lines 1035-1038: the finally block
worker_finally ==
    /\ pc = "finally"
    /\ btn_convert' = "normal"
    /\ btn_cancel' = "disabled"
    /\ pc' = "exit"
    /\ UNCHANGED <<cancel_event, worker_thread, alive>>
    /\ UNCHANGED <<plan, start_v, idx, ci, ii, seq, created>>
    /\ UNCHANGED <<uiVars, fsVars, histVars, envVars, log, ops>>

\* the thread ends after _process_plan_worker has returned
thread_exit ==
    /\ pc = "exit"
    /\ alive' = alive \ {worker_thread}
    /\ pc' = "idle"
    /\ plan' = <<>>
    /\ start_v' = 0
    /\ idx' = 0
    /\ ci' = 0
    /\ ii' = 0
    /\ seq' = 0
    /\ created' = 0
    /\ calls' = <<>>
    /\ kcc_runs' = <<>>
    /\ run_cfg' = None
    /\ fs_at_start' = <<NoFiles, NoFiles>>
    /\ run_chapters' = <<>>
    /\ UNCHANGED <<btn_convert, btn_cancel, cancel_event, worker_thread>>
    /\ UNCHANGED <<uiVars, fsVars, envVars, log, ops>>

----------------------------------------------------------------------------
(* The application *)

\* __init__: the state after construction; temp/ and ebooks/ are kept as an
\* earlier session left them (setup_directories only creates what is missing).
\* A page the pipeline cannot process is the ok = FALSE input of the worker's
\* page step, so no cv2 call is singled out as throwing here
Init ==
    /\ selected_folder = None
    /\ process_subfolders = TRUE
    /\ chapters = <<>>
    /\ group_size = 10
    /\ start_volume = 1
    /\ plan_tree = <<>>
    /\ config = DefaultConfig
    /\ clean_temp_before = TRUE
    /\ clean_ebooks_before = TRUE
    /\ btn_convert = "normal"
    /\ btn_cancel = "disabled"
    /\ cancel_event = FALSE
    /\ worker_thread = 0
    /\ alive = {}
    /\ pc = "idle"
    /\ plan = <<>>
    /\ start_v = 0
    /\ idx = 0
    /\ ci = 0
    /\ ii = 0
    /\ seq = 0
    /\ created = 0
    /\ temp = OldTemp
    /\ ebooks = OldEbooks
    /\ now = 0
    /\ has_ximgproc \in BOOLEAN
    /\ log = {}
    /\ calls = <<>>
    /\ kcc_runs = <<>>
    /\ run_cfg = None
    /\ fs_at_start = <<NoFiles, NoFiles>>
    /\ run_chapters = <<>>
    /\ ops = 0
    /\ profile_key = "INMANGA"
    /\ cv2_raises = {}
    /\ preview_mode = "Antes/Despues"
    /\ preview = None
    /\ renders = {}

Next ==
    \/ \E f \in Folders : select_folder(f)
    \/ rescan_if_ready
    \/ \E i \in 1..MaxChapters, delta \in {-1, 1} : move_chapter(i, delta)
    \/ \E i \in 1..MaxChapters : toggle_chapter(i)
    \/ update_plan_view
    \/ \E g \in 0..(MaxChapters - 1) : set_group_size(g)
    \/ \E s \in 0..MaxStart : set_start_volume(s)
    \/ \E field \in DOMAIN ConfigDomain : \E v \in ConfigDomain[field] : set_config(field, v)
    \/ \E t \in BOOLEAN, e \in BOOLEAN : set_clean(t, e)
    \/ start_process_thread
    \/ cancel_process
    \/ worker_precheck
    \/ \E raises \in BOOLEAN : worker_prepare(raises)
    \/ worker_vol_check
    \/ worker_page_check
    \/ \E ok \in BOOLEAN : worker_page_run(ok)
    \/ \E kcc_exe \in BOOLEAN, outcome \in PackagerOutcomes : worker_package(kcc_exe, outcome)
    \/ worker_finally
    \/ thread_exit

Spec == Init /\ [][Next]_vars

----------------------------------------------------------------------------
(* The planner on its own: a scanned folder, a typed group size and start
   volume, then chapters moved and toggled and the plan recalculated *)

PlanFolders ==
    {[root |-> 0, subs |-> s] :
        s \in UNION {[1..n -> 1..MaxImages] : n \in 0..MaxPlanChapters}}

InitPlan ==
    /\ \E f \in PlanFolders :
          /\ selected_folder = f
          /\ chapters = scan_images(f, TRUE)
          /\ plan_tree = plan_view(chapters, 10, 1)
    /\ process_subfolders = TRUE
    /\ group_size \in 0..MaxGroup
    /\ start_volume \in 0..MaxStart
    /\ config = DefaultConfig
    /\ clean_temp_before = TRUE
    /\ clean_ebooks_before = TRUE
    /\ btn_convert = "normal"
    /\ btn_cancel = "disabled"
    /\ cancel_event = FALSE
    /\ worker_thread = 0
    /\ alive = {}
    /\ pc = "idle"
    /\ plan = <<>>
    /\ start_v = 0
    /\ idx = 0
    /\ ci = 0
    /\ ii = 0
    /\ seq = 0
    /\ created = 0
    /\ temp = OldTemp
    /\ ebooks = OldEbooks
    /\ now = 0
    /\ has_ximgproc = FALSE
    /\ log = {}
    /\ calls = <<>>
    /\ kcc_runs = <<>>
    /\ run_cfg = None
    /\ fs_at_start = <<NoFiles, NoFiles>>
    /\ run_chapters = <<>>
    /\ ops = 0
    /\ profile_key = "INMANGA"
    /\ cv2_raises = {}
    /\ preview_mode = "Antes/Despues"
    /\ preview = None
    /\ renders = {}

NextPlan ==
    \/ \E i \in 1..MaxPlanChapters, delta \in {-1, 1} : move_chapter(i, delta)
    \/ \E i \in 1..MaxPlanChapters : toggle_chapter(i)
    \/ update_plan_view

SpecPlan == InitPlan /\ [][NextPlan]_vars

----------------------------------------------------------------------------
(* The scanner on its own: folders given by their listings, chosen in the
   dialog, rescanned, with either profile *)

MaxEntries == 3         \* entries in the listing of a root folder

\* the directory entries a root folder is made of: chapter directories with
\* their files, and files lying in the root
DirEntries ==
    {[name |-> <<"C", "h", "a", "p", "t", "e", "r", " ", "2">>, is_dir |-> TRUE,
         entries |-> <<[name |-> <<"1", "0", ".", "j", "p", "g">>, is_dir |-> FALSE, entries |-> <<>>],
                       [name |-> <<"2", ".", "j", "p", "g">>, is_dir |-> FALSE, entries |-> <<>>]>>],
     [name |-> <<"C", "h", "a", "p", "t", "e", "r", " ", "1", "0">>, is_dir |-> TRUE,
         entries |-> <<[name |-> <<"1", ".", "j", "p", "g">>, is_dir |-> FALSE, entries |-> <<>>],
                       [name |-> <<"0", "1", ".", "j", "p", "g">>, is_dir |-> FALSE, entries |-> <<>>]>>],
     [name |-> <<"C", "h", "a", "p", "t", "e", "r", " ", "a", "b", "c">>, is_dir |-> TRUE,
         entries |-> <<[name |-> <<"b", ".", "p", "n", "g">>, is_dir |-> FALSE, entries |-> <<>>],
                       [name |-> <<"A", ".", "J", "P", "G">>, is_dir |-> FALSE, entries |-> <<>>]>>],
     [name |-> <<"C", "h", "a", "p", "t", "e", "r", " ", "0", "2">>, is_dir |-> TRUE,
         entries |-> <<[name |-> <<"1", ".", "p", "n", "g">>, is_dir |-> FALSE, entries |-> <<>>],
                       [name |-> <<"1", ".", "j", "p", "g">>, is_dir |-> FALSE, entries |-> <<>>]>>],
     [name |-> <<"c", "h", "3", " ", "x">>, is_dir |-> TRUE,
         entries |-> <<[name |-> <<"n", ".", "t", "x", "t">>, is_dir |-> FALSE, entries |-> <<>>],
                       [name |-> <<"2", ".", "j", "p", "g">>, is_dir |-> TRUE, entries |-> <<>>]>>],
     [name |-> <<"E", "x", "t", "r", "a", "s">>, is_dir |-> TRUE,
         entries |-> <<[name |-> <<"a", ".", "j", "p", "g">>, is_dir |-> FALSE, entries |-> <<>>],
                       [name |-> <<".", "j", "p", "g">>, is_dir |-> FALSE, entries |-> <<>>]>>],
     [name |-> <<"1", "0", ".", "j", "p", "g">>, is_dir |-> FALSE, entries |-> <<>>],
     [name |-> <<"2", ".", "j", "p", "g">>, is_dir |-> FALSE, entries |-> <<>>],
     [name |-> <<"n", ".", "t", "x", "t">>, is_dir |-> FALSE, entries |-> <<>>]}

\* the listings of s in every order
Orders(s) == {[i \in DOMAIN s |-> s[f[i]]] : f \in Permutations(DOMAIN s)}

\* the root folders: up to MaxEntries distinct entries, listed in any order
ListedFolders ==
    {f \in [name : {<<"M", "a", "n", "g", "a">>}, is_dir : {TRUE},
            entries : UNION {[1..n -> DirEntries] : n \in 0..MaxEntries}] :
        \A i, j \in DOMAIN f.entries : i # j => f.entries[i].name # f.entries[j].name}

\* a folder has been chosen and scanned, with either profile and either
\* setting of the subfolder checkbutton
InitScan ==
    /\ selected_folder \in ListedFolders
    /\ process_subfolders \in BOOLEAN
    /\ profile_key \in DOMAIN PROFILES
    /\ chapters = scan_listing(selected_folder, profile_key, process_subfolders)
    /\ plan_tree = plan_view(chapters, 10, 1)
    /\ log = {[kind |-> "scan", n |-> Len(chapters)]}
    /\ group_size = 10
    /\ start_volume = 1
    /\ config = DefaultConfig
    /\ clean_temp_before = TRUE
    /\ clean_ebooks_before = TRUE
    /\ btn_convert = "normal"
    /\ btn_cancel = "disabled"
    /\ cancel_event = FALSE
    /\ worker_thread = 0
    /\ alive = {}
    /\ pc = "idle"
    /\ plan = <<>>
    /\ start_v = 0
    /\ idx = 0
    /\ ci = 0
    /\ ii = 0
    /\ seq = 0
    /\ created = 0
    /\ temp = OldTemp
    /\ ebooks = OldEbooks
    /\ now = 0
    /\ has_ximgproc = FALSE
    /\ calls = <<>>
    /\ kcc_runs = <<>>
    /\ run_cfg = None
    /\ fs_at_start = <<NoFiles, NoFiles>>
    /\ run_chapters = <<>>
    /\ ops = 0
    /\ cv2_raises = {}
    /\ preview_mode = "Antes/Despues"
    /\ preview = None
    /\ renders = {}

NextScan ==
    \/ rescan_if_ready
    \/ \E k \in DOMAIN PROFILES : set_profile_key(k)

SpecScan == InitScan /\ [][NextScan]_vars

----------------------------------------------------------------------------
(* The preview on its own: a scanned folder, any configuration of the
   enhancement, either outcome of the ximgproc probe, any of the guarded
   cv2 calls throwing on this build *)

\* the configurations the widgets of the configuration tab can be left in,
\* as far as the pipeline reads them
PreviewConfigs ==
    {[DefaultConfig EXCEPT !.contrast_boost = c, !.sharpness_boost = sh,
                           !.noise_reduction = nr, !.auto_contrast = ac,
                           !.to_grayscale = g, !.adaptive_threshold = at,
                           !.preset_name = p, !.eink_dither = d] :
        c \in ConfigDomain.contrast_boost, sh \in ConfigDomain.sharpness_boost,
        nr \in BOOLEAN, ac \in BOOLEAN, g \in BOOLEAN, at \in BOOLEAN,
        p \in Presets, d \in BOOLEAN}

\* one chapter of two pages
PreviewFolder == [root |-> 0, subs |-> <<2>>]

InitPreview ==
    /\ selected_folder = PreviewFolder
    /\ process_subfolders = TRUE
    /\ chapters = scan_images(selected_folder, TRUE)
    /\ plan_tree = plan_view(chapters, 10, 1)
    /\ log = {[kind |-> "scan", n |-> Len(chapters)]}
    /\ group_size = 10
    /\ start_volume = 1
    /\ config \in PreviewConfigs
    /\ clean_temp_before = TRUE
    /\ clean_ebooks_before = TRUE
    /\ btn_convert = "normal"
    /\ btn_cancel = "disabled"
    /\ cancel_event = FALSE
    /\ worker_thread = 0
    /\ alive = {}
    /\ pc = "idle"
    /\ plan = <<>>
    /\ start_v = 0
    /\ idx = 0
    /\ ci = 0
    /\ ii = 0
    /\ seq = 0
    /\ created = 0
    /\ temp = OldTemp
    /\ ebooks = OldEbooks
    /\ now = 0
    /\ has_ximgproc \in BOOLEAN
    /\ calls = <<>>
    /\ kcc_runs = <<>>
    /\ run_cfg = None
    /\ fs_at_start = <<NoFiles, NoFiles>>
    /\ run_chapters = <<>>
    /\ ops = 0
    /\ profile_key = "INMANGA"
    /\ cv2_raises \in SUBSET Cv2Calls
    /\ preview_mode = "Antes/Despues"
    /\ preview = None
    /\ renders = {}

NextPreview ==
    \/ \E m \in PreviewModes : set_preview_mode(m)
    \/ \E i \in 0..1, readable \in BOOLEAN : render_preview_now(i, readable)

SpecPreview == InitPreview /\ [][NextPreview]_vars

----------------------------------------------------------------------------
(* The preset dispatch on its own: the preview rendered with the preset
   variable holding any of the identifiers *)

InitDispatch ==
    /\ selected_folder = PreviewFolder
    /\ process_subfolders = TRUE
    /\ chapters = scan_images(selected_folder, TRUE)
    /\ plan_tree = plan_view(chapters, 10, 1)
    /\ log = {[kind |-> "scan", n |-> Len(chapters)]}
    /\ group_size = 10
    /\ start_volume = 1
    /\ \E p \in DOMAIN Chars, g \in BOOLEAN, d \in BOOLEAN :
          config = [DefaultConfig EXCEPT !.preset_name = p, !.to_grayscale = g,
                                         !.eink_dither = d]
    /\ clean_temp_before = TRUE
    /\ clean_ebooks_before = TRUE
    /\ btn_convert = "normal"
    /\ btn_cancel = "disabled"
    /\ cancel_event = FALSE
    /\ worker_thread = 0
    /\ alive = {}
    /\ pc = "idle"
    /\ plan = <<>>
    /\ start_v = 0
    /\ idx = 0
    /\ ci = 0
    /\ ii = 0
    /\ seq = 0
    /\ created = 0
    /\ temp = OldTemp
    /\ ebooks = OldEbooks
    /\ now = 0
    /\ has_ximgproc \in BOOLEAN
    /\ calls = <<>>
    /\ kcc_runs = <<>>
    /\ run_cfg = None
    /\ fs_at_start = <<NoFiles, NoFiles>>
    /\ run_chapters = <<>>
    /\ ops = 0
    /\ profile_key = "INMANGA"
    /\ cv2_raises = {}
    /\ preview_mode = "Antes/Despues"
    /\ preview = None
    /\ renders = {}

SpecDispatch == InitDispatch /\ [][NextPreview]_vars

----------------------------------------------------------------------------
(* The export run on its own: a folder chosen and planned one chapter to the
   volume, the start volume typed on either side of 10, 100 and 1000, then
   the one operation left: a run *)

\* the values left in the start-volume spinbox
StartVolumes == {0, 1, 9, 98, 99, 100, 998}

\* folders of up to MaxPlanChapters chapters of one page
VolumeFolders == {[root |-> 0, subs |-> [k \in 1..n |-> 1]] : n \in 0..MaxPlanChapters}

InitVolumes ==
    /\ \E f \in VolumeFolders :
          /\ selected_folder = f
          /\ chapters = scan_images(f, TRUE)
    /\ process_subfolders = TRUE
    /\ group_size = 1
    /\ start_volume \in StartVolumes
    /\ plan_tree = plan_view(chapters, group_size, start_volume)
    /\ config = DefaultConfig
    /\ clean_temp_before \in BOOLEAN
    /\ clean_ebooks_before = TRUE
    /\ btn_convert = "normal"
    /\ btn_cancel = "disabled"
    /\ cancel_event = FALSE
    /\ worker_thread = 0
    /\ alive = {}
    /\ pc = "idle"
    /\ plan = <<>>
    /\ start_v = 0
    /\ idx = 0
    /\ ci = 0
    /\ ii = 0
    /\ seq = 0
    /\ created = 0
    /\ temp = OldTemp
    /\ ebooks = OldEbooks
    /\ now = 0
    /\ has_ximgproc = FALSE
    /\ log = {}
    /\ calls = <<>>
    /\ kcc_runs = <<>>
    /\ run_cfg = None
    /\ fs_at_start = <<NoFiles, NoFiles>>
    /\ run_chapters = <<>>
    /\ ops = MaxOps - 1
    /\ profile_key = "INMANGA"
    /\ cv2_raises = {}
    /\ preview_mode = "Antes/Despues"
    /\ preview = None
    /\ renders = {}

NextVolumes ==
    \/ start_process_thread
    \/ cancel_process
    \/ worker_precheck
    \/ \E raises \in BOOLEAN : worker_prepare(raises)
    \/ worker_vol_check
    \/ worker_page_check
    \/ \E ok \in BOOLEAN : worker_page_run(ok)
    \/ \E kcc_exe \in BOOLEAN, outcome \in PackagerOutcomes : worker_package(kcc_exe, outcome)
    \/ worker_finally
    \/ thread_exit

SpecVolumes == InitVolumes /\ [][NextVolumes]_vars

\* a step of the worker thread, from its start to the end of the thread
WorkerStep ==
    \/ worker_precheck
    \/ \E raises \in BOOLEAN : worker_prepare(raises)
    \/ worker_vol_check
    \/ worker_page_check
    \/ \E ok \in BOOLEAN : worker_page_run(ok)
    \/ \E kcc_exe \in BOOLEAN, outcome \in PackagerOutcomes : worker_package(kcc_exe, outcome)
    \/ worker_finally
    \/ thread_exit

\* the same run with the worker thread scheduled: a started thread keeps
\* being given the processor, and each of its steps (a page, a run of KCC)
\* returns
SpecRun == InitVolumes /\ [][NextVolumes]_vars /\ WF_vars(WorkerStep)

\* the enabled chapters, in list order
Enabled(chs) == SelectSeq(chs, LAMBDA c : c.enabled)

\* the least number of groups of at most g that hold n chapters
Groups(n, g) == CHOOSE k \in 0..n : k * g >= n /\ (k = 0 \/ (k - 1) * g < n)

\* C1: for N enabled chapters, group size G >= 1 and start volume S >= 1 the
\* plan has ceil(N/G) volumes, every enabled chapter (and no other) is in
\* exactly one volume, and the volume numbers given by start_v + idx are
\* exactly S .. S+ceil(N/G)-1, in plan order
PlanPartition ==
    (group_size >= 1 /\ start_volume >= 1) =>
        LET p == build_plan(chapters, group_size)
            view == plan_view(chapters, group_size, start_volume)
            n == Len(Enabled(chapters))
            k == Groups(n, group_size)
        IN  /\ Len(p) = k
            /\ \A c \in DOMAIN chapters :
                  Cardinality({<<v, j>> \in (DOMAIN p) \X (1..Len(chapters)) :
                                   j \in DOMAIN p[v] /\ p[v][j].name = chapters[c].name})
                      = IF chapters[c].enabled THEN 1 ELSE 0
            /\ Len(view) = k
            /\ \A v \in DOMAIN view :
                  view[v].vnum = start_volume + v - 1
                                 /\ view[v].vnum = vnum_of(start_v_of(start_volume), v)
            /\ {view[v].vnum : v \in DOMAIN view} = start_volume..(start_volume + k - 1)

\* two of three chapters enabled, in groups of one from volume 2, as shown
\* in the recalculated plan view: volumes 2 and 3
PlanPartitionWitness ==
    /\ Len(chapters) = 3
    /\ Len(Enabled(chapters)) = 2
    /\ group_size = 1
    /\ start_volume = 2
    /\ plan_tree = plan_view(chapters, group_size, start_volume)
    /\ Len(plan_tree) = 2
    /\ plan_tree[2].vnum = 3

\* C2: the volumes of the plan, concatenated in plan order, are the enabled
\* chapters in list order; every volume holds between 1 and G chapters and
\* every volume but the last holds exactly G
PlanOrder ==
    (group_size >= 1) =>
        LET p == build_plan(chapters, group_size)
        IN  /\ Flatten(p) = Enabled(chapters)
            /\ \A v \in DOMAIN p : Len(p[v]) >= 1 /\ Len(p[v]) <= group_size
            /\ \A v \in DOMAIN p : v < Len(p) => Len(p[v]) = group_size

\* three enabled chapters, moved out of scan order, in groups of two: a full
\* volume and a smaller last one
PlanOrderWitness ==
    /\ Len(Enabled(chapters)) = 3
    /\ chapters[1].name > chapters[2].name
    /\ group_size = 2
    /\ Len(build_plan(chapters, group_size)) = 2
    /\ Len(build_plan(chapters, group_size)[2]) = 1
    /\ plan_tree = plan_view(chapters, group_size, start_volume)

----------------------------------------------------------------------------
(* The export run *)

\* the images of a volume in chapter order, then image order
VolImages(vol) == Flatten([c \in DOMAIN vol |-> vol[c].images])

\* the invocations of process_single_image_seq for volume v of the plan
CallsOf(v) == SelectSeq(calls, LAMBDA c : c.vol = v)

\* the worker is inside the volume loop
InVolume == pc \in {"page_check", "page_run", "package"}

\* the step is process_single_image_seq returning for a page that failed
PageFailed == pc = "page_run" /\ Len(calls') = Len(calls) + 1 /\ ~calls'[Len(calls')].ok

\* C3: within a volume of a run no two pages get the same sequence number:
\* the counter is 1 plus the number of images attempted so far, the image at
\* position k of the volume's chapter/image order is processed under number
\* k, and the files of the volume directory are those of the pages that
\* succeeded (none, when no page was attempted or none succeeded)
SeqNumbering ==
    /\ \A i, j \in DOMAIN calls :
          (i # j /\ calls[i].vol = calls[j].vol) => calls[i].seq # calls[j].seq
    /\ \A i \in DOMAIN calls :
          LET imgs == VolImages(plan[calls[i].vol])
          IN  /\ calls[i].seq \in DOMAIN imgs
              /\ imgs[calls[i].seq] = calls[i].img
              /\ calls[i].ok =>
                    LET dir == temp[vol_tmp(vnum_of(start_v, calls[i].vol))]
                    IN  calls[i].seq \in DOMAIN dir /\ dir[calls[i].seq].img.src = calls[i].img
    /\ InVolume =>
          /\ seq = 1 + Len(CallsOf(idx))
          /\ DOMAIN temp[vol_tmp(vnum_of(start_v, idx))] = {c.seq : c \in {d \in Range(CallsOf(idx)) : d.ok}}

\* the second chapter's image, third of the volume, written as number 3 after
\* the first page had failed and the second had been written
SeqNumberingWitness ==
    /\ pc = "page_check"
    /\ Len(calls) = 3
    /\ ~calls[1].ok /\ calls[2].ok /\ calls[3].ok
    /\ calls[3].vol = calls[1].vol
    /\ calls[3].img[1] # calls[1].img[1]
    /\ DOMAIN temp[vol_tmp(vnum_of(start_v, idx))] = {2, 3}

\* the volumes of the plan whose directory the run has set up
Exported ==
    {v \in DOMAIN plan : v < idx \/ (v = idx /\ InVolume)} \cup {c.vol : c \in Range(calls)}

\* C4 as claimed: in every volume directory of a run the numbers of the
\* files written are exactly 1..m for the m files written
ContiguousNumbers ==
    \A v \in Exported :
        LET dir == temp[vol_tmp(vnum_of(start_v, v))]
        IN  DOMAIN dir = 1..Cardinality(DOMAIN dir)

\* C4 as amended: in every volume directory of a run the numbers of the
\* files written are exactly the positions (from 1) of the pages that
\* succeeded, hence distinct and within 1..n for n pages attempted; they are
\* 1..n when no page failed
SucceededNumbers ==
    \A v \in Exported :
        LET dir == temp[vol_tmp(vnum_of(start_v, v))]
            att == CallsOf(v)
        IN  /\ DOMAIN dir = {k \in DOMAIN att : att[k].ok}
            /\ DOMAIN dir \subseteq 1..Len(VolImages(plan[v]))
            /\ (\A k \in DOMAIN att : att[k].ok) => DOMAIN dir = 1..Len(att)

\* a volume of two pages exported with the first page failed: the only file
\* is number 2
SucceededNumbersWitness ==
    /\ pc = "package"
    /\ Len(CallsOf(idx)) = 2
    /\ ~CallsOf(idx)[1].ok
    /\ DOMAIN temp[vol_tmp(vnum_of(start_v, idx))] = {2}

\* the images of all volumes of a plan
PlanImages(p) == Flatten([v \in DOMAIN p |-> VolImages(p[v])])

\* C5: a page that fails writes no file, is logged, advances the counter and
\* leaves the worker in the page loop; a run that was not cancelled and got
\* through its volumes has attempted every page of every volume
PageFailureSkipped ==
    /\ [][PageFailed =>
            /\ temp' = temp
            /\ [kind |-> "page_error", img |-> calls'[Len(calls')].img] \in log'
            /\ seq' = seq + 1
            /\ pc' = "page_check"
            /\ idx' = idx]_vars
    /\ []((pc = "finally" /\ idx > Len(plan) /\ ~cancel_event) =>
            [k \in DOMAIN calls |-> calls[k].img] = PlanImages(plan))

\* a run of two volumes ended, not cancelled, whose first page had failed
PageFailureSkippedWitness ==
    /\ pc = "finally"
    /\ ~cancel_event
    /\ Len(plan) = 2
    /\ idx = 3
    /\ Len(calls) >= 2
    /\ ~calls[1].ok
    /\ calls[Len(calls)].vol = 2
    /\ [kind |-> "page_error", img |-> calls[1].img] \in log

\* C6 as claimed: a volume is counted as produced only if the packager
\* returned 0 and wrote an ebook for that volume, and created counts these
PackagedOnlyWithOutput ==
    /\ \A i \in DOMAIN kcc_runs : kcc_runs[i].ok => kcc_runs[i].outcome = "file"
    /\ (pc \in {"vol_check", "page_check", "page_run", "package"}) =>
          created = Cardinality({i \in DOMAIN kcc_runs : kcc_runs[i].outcome = "file"})

\* the run ended on a fatal precondition
AbortedEarly == pc \in {"finally", "exit"} /\ plan = <<>>

\* C7: a run that ends on a fatal precondition (no folder, no enabled
\* chapter) has left temp/ and ebooks/ as they were when it started, has
\* processed no page and has not run the packager
EarlyAbortNoSideEffects ==
    AbortedEarly =>
        /\ <<temp, ebooks>> = fs_at_start
        /\ calls = <<>>
        /\ kcc_runs = <<>>
        /\ now = 0

\* a run ended because the only chapter found had been disabled, with the
\* leftovers of an earlier session still in temp/ and ebooks/
EarlyAbortWitness ==
    /\ AbortedEarly
    /\ selected_folder # None
    /\ chapters # <<>>
    /\ [kind |-> "no_chapters"] \in log
    /\ clean_temp_before /\ clean_ebooks_before
    /\ temp = OldTemp /\ ebooks = OldEbooks

\* C8: at most one worker is alive; while one is alive no step (a start
\* request among them) starts a thread, clears the cancel flag, disables the
\* start button or puts the worker back at its beginning
SingleWorker ==
    /\ [](Cardinality(alive) <= 1)
    /\ [][is_running(worker_thread, alive) =>
            /\ worker_thread' = worker_thread
            /\ alive' \subseteq alive
            /\ cancel_event => cancel_event'
            /\ btn_convert = "normal" => btn_convert' = "normal"
            /\ pc' = "precheck" => pc = "precheck"]_vars

\* the start button is enabled again while the worker of a cancelled run is
\* still alive: a start request here is the one that must do nothing
SingleWorkerWitness ==
    /\ btn_convert = "normal"
    /\ is_running(worker_thread, alive)
    /\ cancel_event
    /\ pc = "exit"

\* C9: once the cancel flag is set during a run it stays set while the worker
\* lives, no page and no volume is begun and no volume is packaged; the only
\* page processed is the one in flight, which is always completed
CooperativeCancel ==
    /\ [][(cancel_event /\ is_running(worker_thread, alive)) =>
            /\ cancel_event'
            /\ ~(pc = "page_check" /\ pc' = "page_run")
            /\ ~(pc = "vol_check" /\ pc' = "page_check")
            /\ ~(pc = "page_check" /\ pc' = "package")
            /\ (Len(calls') > Len(calls)) => pc = "page_run"]_vars
    /\ [][(pc = "page_run" /\ pc' # "page_run") =>
            /\ Len(calls') = Len(calls) + 1
            /\ pc' = "page_check"]_vars

\* a run cancelled while its first page was in flight: that page was
\* completed, the second page of the volume was never begun
CooperativeCancelWitness ==
    /\ pc = "finally"
    /\ cancel_event
    /\ [kind |-> "cancelled_after_export"] \in log
    /\ Len(calls) = 1
    /\ Len(VolImages(plan[idx])) >= 2
    /\ kcc_runs = <<>>

\* C10 as claimed: every page of a run is processed with the configuration
\* in effect when the run was started
ConfigSnapshot ==
    \A i \in DOMAIN calls : calls[i].cfg = run_cfg

\* C11 as claimed: the volumes, chapters and pages a run exports are those of
\* the chapter list and enabled flags as they were when the run was started,
\* whatever is moved, toggled or rescanned while the run is active
ChapterSnapshot ==
    pc \notin {"idle", "precheck"} =>
        /\ \E g \in 0..MaxChapters : plan = build_plan(run_chapters, g)
        /\ \A i \in DOMAIN calls :
              i <= Len(PlanImages(build_plan(run_chapters, 1)))
              /\ calls[i].img = PlanImages(build_plan(run_chapters, 1))[i]

\* a step on the cancellation path: the cancel button, or a step of the
\* worker taken with the flag set from a loop head or through its exit
CancelPath ==
    \/ (btn_cancel = "normal" /\ ~cancel_event /\ cancel_event')
    \/ (cancel_event /\ pc \in {"vol_check", "page_check", "finally", "exit"} /\ pc' # pc)

\* C12: the cancellation path changes neither temp/ nor ebooks/, and when a
\* cancelled run has ended every page file it wrote is in its volume
\* directory as written and every ebook its packager wrote is in ebooks/
CancelKeepsOutput ==
    /\ [][CancelPath => (temp' = temp /\ ebooks' = ebooks)]_vars
    /\ []((cancel_event /\ pc \in {"finally", "exit"}) =>
            /\ \A i \in DOMAIN calls :
                  calls[i].ok =>
                      LET dir == temp[vol_tmp(vnum_of(start_v, calls[i].vol))]
                      IN  /\ calls[i].seq \in DOMAIN dir
                          /\ dir[calls[i].seq] = PageFile(calls[i].img, calls[i].cfg, has_ximgproc)
            /\ \A i \in DOMAIN kcc_runs :
                  kcc_runs[i].outcome = "file" =>
                      \E n \in DOMAIN ebooks : ebooks[n].vol = kcc_runs[i].vnum)

\* a run cancelled in its second volume, after the first was packaged and a
\* page of the second was written: both are still there when it ends
CancelKeepsOutputWitness ==
    /\ pc = "exit"
    /\ cancel_event
    /\ [kind |-> "cancelled_after_export"] \in log
    /\ \E i \in DOMAIN kcc_runs : kcc_runs[i].outcome = "file" /\ kcc_runs[i].vol = 1
    /\ \E i \in DOMAIN calls : calls[i].ok /\ calls[i].vol = 2
    /\ DOMAIN temp[vol_tmp(vnum_of(start_v, 2))] # {}
    /\ \E n \in DOMAIN ebooks : ebooks[n].vol = vnum_of(start_v, 1)

\* C13 as claimed: packaging a volume leaves every ebook file already in
\* ebooks/ under its name and with its content
ExistingEbookKept ==
    [][pc = "package" =>
          \A n \in DOMAIN ebooks : n \in DOMAIN ebooks' /\ ebooks'[n] = ebooks[n]]_vars

\* the discovered chapters without their flags: name and image list
Discovered(chs) == [i \in DOMAIN chs |-> [name |-> chs[i].name, images |-> chs[i].images]]

\* chs2 is chs with the flag of exactly one entry flipped
IsToggle(chs, chs2) ==
    /\ Discovered(chs2) = Discovered(chs)
    /\ \E i \in DOMAIN chs :
          \A k \in DOMAIN chs : (chs2[k].enabled = chs[k].enabled) <=> (k # i)

\* chs2 is chs with two adjacent entries exchanged
IsAdjacentSwap(chs, chs2) ==
    /\ Len(chs2) = Len(chs)
    /\ \E i \in DOMAIN chs :
          /\ i + 1 \in DOMAIN chs
          /\ chs2[i] = chs[i + 1]
          /\ chs2[i + 1] = chs[i]
          /\ \A k \in DOMAIN chs \ {i, i + 1} : chs2[k] = chs[k]

\* the chapter is in some volume of the plan
InPlan(ch, p) == \E v \in DOMAIN p : \E c \in DOMAIN p[v] : p[v][c].name = ch.name

\* C16: a step of toggle_chapter or move_chapter that changes the list flips
\* one enabled flag or exchanges two adjacent entries, so the discovered
\* chapters and their image lists stay the same set; and a chapter is in the
\* result of build_plan exactly when it is enabled
DisabledStaysDiscovered ==
    /\ [][chapters' # chapters =>
            /\ IsToggle(chapters, chapters') \/ IsAdjacentSwap(chapters, chapters')
            /\ Range(Discovered(chapters')) = Range(Discovered(chapters))
            /\ Len(chapters') = Len(chapters)]_vars
    /\ [](\A i \in DOMAIN chapters :
            InPlan(chapters[i], build_plan(chapters, group_size)) <=> chapters[i].enabled)

\* three chapters, the first moved down and then disabled: it is still in
\* the list, in second place, and in no row of the plan view
DisabledStaysDiscoveredWitness ==
    /\ Len(chapters) = 3
    /\ chapters[2].name = 1
    /\ ~chapters[2].enabled
    /\ chapters[1].enabled /\ chapters[3].enabled
    /\ plan_tree # <<>>
    /\ \A v \in DOMAIN plan_tree : chapters[2].name \notin Range(plan_tree[v].chapters)

\* the chapter list is the result of scanning the selected folder with the
\* profile and subfolder setting now in effect
Fresh == chapters = scan_listing(selected_folder, profile_key, process_subfolders)

\* names is in key order, G(name) being the digits the pattern captures:
\* captured names first, by integer value, then the others by lowercased name
InKeyOrder(names, G(_)) ==
    \A i, j \in DOMAIN names :
        i < j =>
            \/ G(names[i]) # <<>> /\ G(names[j]) = <<>>
            \/ G(names[i]) # <<>> /\ G(names[j]) # <<>> /\ int(G(names[i])) <= int(G(names[j]))
            \/ G(names[i]) = <<>> /\ G(names[j]) = <<>> /\ ~StrLess(lower(names[j]), lower(names[i]))

\* the names of the entries of a folder and of its subdirectories
EntryNames(f) ==
    {e.name : e \in Range(f.entries)}
    \cup UNION {{x.name : x \in Range(e.entries)} : e \in Range(f.entries)}

\* C14: both keys are (0, n) for a name whose pattern captures digits of
\* value n and (1, lowercased name) otherwise, and a scan puts chapters and
\* the images of each chapter in the order: captured names first, ascending
\* by value, then the other names by lowercased name
SortKeyOrder ==
    LET ImageGroup(n) == image_file_regex(profile_key, n)
        ChapterGroup(n) == chapter_dir_regex(profile_key, n)
    IN  /\ \A n \in EntryNames(selected_folder) :
              /\ sort_image_key(profile_key, n) =
                     IF ImageGroup(n) # <<>> THEN <<0, int(ImageGroup(n))>> ELSE <<1, lower(n)>>
              /\ sort_chapter_key(profile_key, n) =
                     IF ChapterGroup(n) # <<>> THEN <<0, int(ChapterGroup(n))>> ELSE <<1, lower(n)>>
        /\ Fresh =>
              /\ InKeyOrder([i \in DOMAIN chapters |-> chapters[i].name], ChapterGroup)
              /\ \A c \in DOMAIN chapters :
                    InKeyOrder([i \in DOMAIN chapters[c].images |-> chapters[c].images[i][2]],
                               ImageGroup)

\* "Chapter 10", "Chapter 2", "Chapter abc" listed in this order come out of
\* a rescan as "Chapter 2", "Chapter 10", "Chapter abc", with 2.jpg before
\* 10.jpg and A.JPG before b.png
SortKeyOrderWitness ==
    /\ ops > 0
    /\ Fresh
    /\ [i \in DOMAIN selected_folder.entries |-> selected_folder.entries[i].name]
           = <<<<"C", "h", "a", "p", "t", "e", "r", " ", "1", "0">>,
               <<"C", "h", "a", "p", "t", "e", "r", " ", "2">>,
               <<"C", "h", "a", "p", "t", "e", "r", " ", "a", "b", "c">>>>
    /\ [i \in DOMAIN chapters |-> chapters[i].name]
           = <<<<"C", "h", "a", "p", "t", "e", "r", " ", "2">>,
               <<"C", "h", "a", "p", "t", "e", "r", " ", "1", "0">>,
               <<"C", "h", "a", "p", "t", "e", "r", " ", "a", "b", "c">>>>
    /\ [i \in 1..2 |-> chapters[1].images[i][2]] = <<<<"2", ".", "j", "p", "g">>, <<"1", "0", ".", "j", "p", "g">>>>
    /\ [i \in 1..2 |-> chapters[3].images[i][2]] = <<<<"A", ".", "J", "P", "G">>, <<"b", ".", "p", "n", "g">>>>

\* a directory entry with its own entries listed in every order
ChildOrders(e) == IF e.is_dir THEN {[e EXCEPT !.entries = o] : o \in Orders(e.entries)} ELSE {e}

\* the folder f as the filesystem may enumerate it: the same entries, the
\* root and every subdirectory listed in any order
Reorderings(f) ==
    LET kids == {g \in [DOMAIN f.entries -> UNION {ChildOrders(e) : e \in Range(f.entries)}] :
                    \A i \in DOMAIN f.entries : g[i] \in ChildOrders(f.entries[i])}
    IN  {[f EXCEPT !.entries = o] : o \in UNION {Orders(g) : g \in kids}}

\* C15 as claimed: whatever order the entries are enumerated in, a scan
\* yields the same chapters in the same order with the same image order
ScanOrderIndependent ==
    Fresh =>
        \A v \in Reorderings(selected_folder) :
            scan_listing(v, profile_key, process_subfolders) = chapters

\* the name ends in .jpg, .jpeg, .png or .webp, in any case
HasImageExtension(name) == \E e \in Extensions : endswith(lower(name), <<".">> \o e)

\* C17: after a scan every chapter has at least one image and is enabled,
\* and its images are files of its directory with an image extension
ScannedChapters ==
    Fresh =>
        \A c \in DOMAIN chapters :
            /\ chapters[c].images # <<>>
            /\ chapters[c].enabled
            /\ \A i \in DOMAIN chapters[c].images :
                  LET img == chapters[c].images[i]
                      dir == IF process_subfolders
                             THEN CHOOSE d \in Range(selected_folder.entries) : d.name = img[1]
                             ELSE selected_folder
                  IN  /\ img[1] = chapters[c].name
                      /\ HasImageExtension(img[2])
                      /\ \E f \in Range(dir.entries) : f.name = img[2] /\ ~f.is_dir

\* a folder with "ch3 x" (a text file and a directory named 2.jpg) and
\* "Extras" (a.jpg and a file named .jpg), scanned by subfolders: the only
\* chapter after a rescan is "Extras" and its only image a.jpg
ScannedChaptersWitness ==
    /\ ops > 0
    /\ Fresh
    /\ process_subfolders
    /\ {e.name : e \in Range(selected_folder.entries)} = {<<"c", "h", "3", " ", "x">>, <<"E", "x", "t", "r", "a", "s">>}
    /\ Len(chapters) = 1
    /\ chapters[1].name = <<"E", "x", "t", "r", "a", "s">>
    /\ chapters[1].images = <<<<<<"E", "x", "t", "r", "a", "s">>, <<"a", ".", "j", "p", "g">>>>>>

\* a stage occurs among the stages applied to an image
Has(img, stage) == \E k \in DOMAIN img.stages : img.stages[k] = stage

\* the optional capabilities of the pipeline, each with a fallback defined
Optional == {"niBlackThreshold", "fastNlMeansDenoisingColored"}

\* C18: a call of enhance_image_preset on a decoded image during which only
\* optional capabilities throw returns an image: when the Niblack
\* thresholding throws the Gaussian adaptive threshold has been applied
\* instead, and when the non-local means denoising throws bilateral smoothing
\* has been applied instead
PipelineFallbacks ==
    \A r \in {x \in renders : x.raises \subseteq Optional} :
        /\ r.out.ok
        /\ (/\ r.preset = "Texto pequeno B/N (letra clara)"
            /\ r.ximgproc
            /\ "niBlackThreshold" \in r.raises)
           => (Has(r.out.img, <<"adaptive_threshold", 35>>) /\ ~Has(r.out.img, <<"niblack", 35>>))
        /\ (/\ r.preset = "Escaneo con artefactos JPEG"
            /\ "fastNlMeansDenoisingColored" \in r.raises)
           => (Has(r.out.img, <<"bilateral", 9>>) /\ ~Has(r.out.img, <<"nl_means", 6>>))

\* two calls of enhance_image_preset were given the same pixels, preset,
\* configuration and detected capability
SameInputs(r1, r2) ==
    /\ r1.img = r2.img
    /\ r1.preset = r2.preset
    /\ r1.cfg = r2.cfg
    /\ r1.ximgproc = r2.ximgproc

PrePassOrder(cfg) ==
    <<[stage |-> <<"grayscale", 0>>, on |-> cfg.to_grayscale, call |-> "none"],
      [stage |-> <<"autocontrast", 0>>, on |-> cfg.auto_contrast, call |-> "none"],
      [stage |-> <<"bilateral", 9>>, on |-> cfg.noise_reduction, call |-> "bilateralFilter"],
      [stage |-> <<"adaptive_threshold", 35>>, on |-> cfg.adaptive_threshold,
       call |-> "adaptiveThreshold"]>>

\* the pre-pass stages of a call: those toggled whose cv2 call works
PrePassOf(r) ==
    LET po == SelectSeq(PrePassOrder(r.cfg), LAMBDA e : e.on /\ e.call \notin r.raises)
    IN  [k \in DOMAIN po |-> po[k].stage]

\* the stage sequences a preset's branch consists of
BranchesOf(preset) ==
    CASE preset = "Manga limpio (rapido)" -> {<<<<"clahe", 20>>, <<"unsharp", 10, 6>>>>}
      [] preset = "Manga antiguo / bajo contraste" -> {<<<<"clahe", 26>>, <<"unsharp", 10, 5>>>>}
      [] preset = "Escaneo con artefactos JPEG" ->
            {<<<<"nl_means", 6>>, <<"unsharp", 12, 6>>>>, <<<<"bilateral", 9>>, <<"unsharp", 12, 6>>>>}
      [] preset = "Texto pequeno B/N (letra clara)" ->
            {<<<<"niblack", 35>>>>, <<<<"adaptive_threshold", 35>>>>}
      [] OTHER -> {<<>>}

\* how many of the stages st are of the named kind
Times(st, kind) == Cardinality({k \in DOMAIN st : st[k][1] = kind})

MatchedPrefixes ==
    [preset \in DOMAIN Chars |->
        {k \in DOMAIN PresetPrefixes :
            startswith_at(lower(strip(Chars[preset])), 1, PresetPrefixes[k])}]

Matched(preset) == MatchedPrefixes[preset]

\* the stage sequences the transform of the k-th preset consists of; the
\* fifth, crop-only, has none
TransformsOf(k) == IF k \in DOMAIN CompPresets THEN BranchesOf(CompPresets[k]) ELSE {<<>>}

\* C21: every call of enhance_image_preset returns an image whose stages
\* between the pre-pass and the trim are the transform of the one preset
\* whose prefix the stripped, lowercased identifier begins with; they are
\* empty for the crop-only preset and for an identifier beginning with no
\* known prefix; trim, contrast, sharpness and the toggled dither follow
PresetDispatch ==
    \A r \in renders :
        /\ r.out.ok
        /\ Cardinality(Matched(r.preset)) <= 1
        /\ LET st == r.out.img.stages
               a == Len(PrePassOf(r))
               d == IF r.cfg.eink_dither THEN 1 ELSE 0
               branch == SubSeq(st, a + 1, Len(st) - 3 - d)
           IN  /\ Len(st) >= a + 3 + d
               /\ Matched(r.preset) = {} => branch = <<>>
               /\ \A k \in Matched(r.preset) : branch \in TransformsOf(k)
               /\ SubSeq(st, Len(st) - 2 - d, Len(st)) =
                     fine_tune(r.cfg) \o (IF d = 1 THEN <<apply_eink_dither>> ELSE <<>>)

\* the identifier "  MANGA LIMPIO  " got the transform of the clean preset,
\* and nothing of another preset
PresetDispatchWitness ==
    \E r \in renders :
        /\ r.preset = "  MANGA LIMPIO  "
        /\ r.out.ok
        /\ Has(r.out.img, <<"clahe", 20>>)
        /\ Has(r.out.img, <<"unsharp", 10, 6>>)
        /\ Has(r.out.img, <<"trim_pad", 16>>)
        /\ ~Has(r.out.img, <<"clahe", 26>>)

\* the images process_single_image_seq was called on for volume v, in order
Attempted(v) == [k \in DOMAIN CallsOf(v) |-> CallsOf(v)[k].img]

\* C22: KCC is run on the volumes in plan order and on none twice; a volume
\* is handed to convert_folder_to_mobi, and KCC run on it, only when every
\* image of the volume has been attempted, so never when the cancel flag cut
\* its page loop short; and no volume is handed over a second time
PackagerOnce ==
    /\ \A i, j \in DOMAIN kcc_runs : i < j => kcc_runs[i].vol < kcc_runs[j].vol
    /\ \A i \in DOMAIN kcc_runs :
          Attempted(kcc_runs[i].vol) = VolImages(plan[kcc_runs[i].vol])
    /\ pc = "package" =>
          /\ Attempted(idx) = VolImages(plan[idx])
          /\ \A i \in DOMAIN kcc_runs : kcc_runs[i].vol < idx
    /\ pc \in {"vol_check", "page_check", "page_run"} =>
          \A i \in DOMAIN kcc_runs : kcc_runs[i].vol < idx

\* the first volume was packaged, the run was cancelled when one of the two
\* images of the second volume had been attempted, and the run ended without
\* KCC being run on the second volume
PackagerOnceWitness ==
    /\ pc = "exit"
    /\ Len(plan) = 2
    /\ Len(VolImages(plan[2])) = 2
    /\ Len(Attempted(2)) = 1
    /\ [kind |-> "cancelled_after_export"] \in log
    /\ Len(kcc_runs) = 1
    /\ kcc_runs[1].vol = 1

\* the ebook files in ebooks/ that KCC wrote during the current run: those
\* whose content was not there when the run was started
WrittenByRun ==
    {n \in DOMAIN ebooks : \A m \in DOMAIN fs_at_start[2] : ebooks[n] # fs_at_start[2][m]}

\* C23 as claimed: when a run has ended, every volume it counted in created
\* has an ebook file of its own in ebooks/, written by KCC for that volume
\* during the run, and the run wrote as many ebook files as it counted
EbookPerVolume ==
    pc = "exit" =>
        /\ \A i \in DOMAIN kcc_runs :
              kcc_runs[i].ok =>
                  \E n \in WrittenByRun : ebooks[n].vol = kcc_runs[i].vnum
        /\ Cardinality(WrittenByRun) = created

\* volume v of the plan has been set up by the current run: its directory
\* was cleared and created
SetUp(v) == v < idx \/ (v = idx /\ pc \in {"page_check", "page_run", "package"})

\* C24: in a run the volumes of the plan have pairwise distinct directory
\* names in temp/ and pairwise distinct ebook names, and while later volumes
\* are cleared and exported the directory of every volume set up so far
\* holds the pages that succeeded for that volume, each with its content
VolumeNamesDistinct ==
    (pc \in {"vol_check", "page_check", "page_run", "package", "finally", "exit"} /\ idx > 0) =>
        /\ \A v, w \in DOMAIN plan :
              v # w => /\ vol_tmp(vnum_of(start_v, v)) # vol_tmp(vnum_of(start_v, w))
                       /\ FinalName(vnum_of(start_v, v)) # FinalName(vnum_of(start_v, w))
        /\ \A v \in DOMAIN plan :
              SetUp(v) =>
                  /\ vol_tmp(vnum_of(start_v, v)) \in DOMAIN temp
                  /\ LET dir == temp[vol_tmp(vnum_of(start_v, v))]
                         done == {c \in Range(CallsOf(v)) : c.ok}
                     IN  /\ DOMAIN dir = {c.seq : c \in done}
                         /\ \A c \in done : dir[c.seq] = PageFile(c.img, c.cfg, has_ximgproc)

\* a run of three volumes numbered 99, 100 and 101 has ended with the page
\* of each volume in vol_99, vol_100 and vol_101
VolumeNamesDistinctWitness ==
    /\ pc = "exit"
    /\ start_v = 99
    /\ Len(plan) = 3
    /\ idx = 4
    /\ \A v \in 1..3 : DOMAIN temp[vol_tmp(vnum_of(start_v, v))] = {1}
    /\ vol_tmp(100) = <<"v", "o", "l", "_", "1", "0", "0">>
    /\ vol_tmp(100) \in DOMAIN temp
    /\ vol_tmp(101) \in DOMAIN temp

\* the worker has returned and left the controls as before a run
RunEnded == pc = "exit" /\ btn_convert = "normal" /\ btn_cancel = "disabled"

\* C25: every run that is started comes to its end, whatever path it takes,
\* with the start button enabled and the cancel button disabled
RunEnds == (pc = "precheck") ~> RunEnded

\* a run cancelled while it exported pages has ended with the start button
\* enabled and the cancel button disabled
RunEndsWitness ==
    /\ RunEnded
    /\ cancel_event
    /\ [kind |-> "cancelled_after_export"] \in log
    /\ calls # <<>>

\* C26 as claimed: whenever the start button is enabled no worker thread is
\* alive, so that start_process_thread, called then, passes its test of
\* line 957 and starts a run
StartEnabledStarts == btn_convert = "normal" => ~is_running(worker_thread, alive)

====
